---- MODULE Spec2Model ----
(***************************************************************************)
(* Model of the RAG chat backend (backend/routers/chat.py and the services *)
(* it calls): the relational store, the three Qdrant collections, and the  *)
(* per-request state of handle_chat_message, of the session upload and of  *)
(* the knowledge-base background job.                                      *)
(*                                                                         *)
(* Python strings are sequences of pieces; a piece is a whitespace         *)
(* character (" " or "\n") or a run of non-whitespace text, so that        *)
(* concatenation, join and strip are computed, not assumed.                *)
(* A uuid4 is a tuple naming the call that generated it, so two calls      *)
(* never produce the same id.                                              *)
(***************************************************************************)
EXTENDS Integers, Sequences, FiniteSets, TLC

\* ------------------------------------------------------------------ bounds
MaxTurns == 2
MaxChunks == 2
NumIds == 2
MaxHits == 2
MaxKbRows == 4
MaxTexts == 2
MaxPast == 4

\* ------------------------------------------------------- program constants
search_limit_kb == 4
search_limit_uploads == 3
search_limit_history == 3
PreviewLen == 200
EXPECTED_EMBEDDING_DIMENSION == 768
EmbeddingAttempts == 4
GenerationAttempts == 3

\* Python's None, for a str-valued name, an id and a text
None == "None"
NoId == <<"none", 0, 0>>
NoneText == <<"<None>">>

\* the request handlers that can be in flight
Slots == {"r1", "r2"}

\* ----------------------------------------------------------------- strings
Whitespace == {" ", "\n"}

\* str.strip(): drop leading and trailing whitespace
RECURSIVE LStrip(_)
LStrip(s) ==
    IF s = <<>> THEN <<>>
    ELSE IF Head(s) \in Whitespace THEN LStrip(Tail(s)) ELSE s

RECURSIVE RStrip(_)
RStrip(s) ==
    IF s = <<>> THEN <<>>
    ELSE IF s[Len(s)] \in Whitespace THEN RStrip(SubSeq(s, 1, Len(s) - 1)) ELSE s

Strip(s) == RStrip(LStrip(s))

\* truthiness of a str or None: None and "" are falsy
Truthy(s) == s # NoneText /\ s # <<>>

\* separator.join(chunks)
RECURSIVE Join(_, _)
Join(sep, chunks) ==
    IF chunks = <<>> THEN <<>>
    ELSE IF Len(chunks) = 1 THEN chunks[1]
    ELSE chunks[1] \o sep \o Join(sep, Tail(chunks))

\* str.capitalize() on the speaker values the program writes
Capitalize(speaker) ==
    CASE speaker = "user" -> "User"
      [] speaker = "ai" -> "Ai"
      [] speaker = "system" -> "System"
      [] speaker = "unknown" -> "Unknown"
      [] OTHER -> speaker

\* dict.get(key, default)
Get(payload, key, default) ==
    IF key \in DOMAIN payload THEN payload[key] ELSE default

\* chunk_text[:200] + "..."
Preview(chunk_text) ==
    SubSeq(chunk_text, 1, IF Len(chunk_text) < PreviewLen THEN Len(chunk_text) ELSE PreviewLen)
        \o <<"...">>

ContextSeparator == <<"\n", "\n", "---", "\n", "\n">>

FallbackContext ==
    <<"No specific context found from knowledge base, previous messages or session documents.">>

DefaultModel == "meta-llama/Llama-3.3-70B-Instruct-Turbo-Free"

\* ------------------------------------------------------------------- state
VARIABLES
    conversations,      \* rows of table conversations
    messages,           \* committed rows of table messages
    qdrant,             \* collection name -> set of points
    turn,               \* slot -> state of one handle_chat_message request
    turns_started,      \* number of chat requests received so far
    knowledge_bases,    \* rows of table knowledge_bases
    kb_documents,       \* committed rows of table knowledge_base_documents
    kb_task,            \* file -> state of its KB upload and background job
    uploaded_documents, \* committed rows of table uploaded_documents
    upload,             \* file -> state of its session upload request
    kb_create,          \* slot -> state of one create_knowledge_base request
    provider_call       \* state of one call of a retried provider method

vars == <<conversations, messages, qdrant, turn, turns_started, knowledge_bases,
          kb_documents, kb_task, uploaded_documents, upload, kb_create,
          provider_call>>

svcVars == <<kb_create, provider_call>>

kbVars == <<knowledge_bases, kb_documents, kb_task>>
uploadVars == <<uploaded_documents, upload>>

Collections == {"collection_kb", "collection_uploads", "collection_chat_history"}

\* the conversation ids a request can name; "c3" is the id of no conversation
ConversationIds == {"c1", "c2", "c3"}
UserQueries == {<<"hello">>}
Responses == {<<"answer">>}

\* the embedding model maps a text to one vector, decided by the text
EmbeddingOf(text) == <<"vec">> \o text

MessageRow(id, conversation_id, speaker, text) ==
    [id |-> id, conversation_id |-> conversation_id, speaker |-> speaker, text |-> text]

\* faulty variant: the point gets an id of its own, as the chunk points do
HistoryPoint_OwnId(id, vector, conversation_id, speaker, text) ==
    [id |-> <<"point", id[2], id[3]>>, vector |-> vector,
     payload |-> [conversation_id |-> conversation_id, speaker |-> speaker, text |-> text]]

\* a point of collection_chat_history: its id is the id of the message
HistoryPoint(id, vector, conversation_id, speaker, text) ==
    [id |-> id, vector |-> vector,
     payload |-> [conversation_id |-> conversation_id, speaker |-> speaker, text |-> text]]

\* seq numbers the request among the chat requests received
BlankTurn ==
    [pc |-> "idle", seq |-> 0, conversation_id |-> None, user_query |-> NoneText, kb_id |-> None,
     user_message_id |-> NoId, ai_message_id |-> NoId, query_vector |-> NoneText,
     session_new |-> {}, kb_search_results |-> <<>>, upload_search_results |-> <<>>,
     history_search_results |-> <<>>, search_errors |-> {},
     context_string |-> NoneText, sources_for_response |-> <<>>, origins |-> <<>>,
     model_id |-> None, ai_response_text |-> NoneText, ai_vector_error |-> FALSE,
     calls |-> {}, error |-> None, response |-> <<>>]

\* ------------------------------------------------------------ QdrantService
\* client.upsert: a point replaces the stored point of the same id
Upserted(stored, points) ==
    {p \in stored : \A n \in points : n.id # p.id} \cup points

\* faulty variant: the upsert replaces the content of the collection
add_points_Replaces(collection_name, points) ==
    IF points = {} THEN qdrant
    ELSE [qdrant EXCEPT ![collection_name] = points]

\* add_points, when the upsert succeeds
add_points(collection_name, points) ==
    IF points = {} THEN qdrant
    ELSE [qdrant EXCEPT ![collection_name] = Upserted(@, points)]

\* cosine score of a stored point: 1 for the query's own vector, 0 otherwise
Score(query_vector, p) == IF p.vector = query_vector THEN 1 ELSE 0

IdBefore(a, b) == a[2] < b[2] \/ (a[2] = b[2] /\ a[3] < b[3])

Better(query_vector, p, q) ==
    \/ Score(query_vector, p) > Score(query_vector, q)
    \/ Score(query_vector, p) = Score(query_vector, q) /\ IdBefore(p.id, q.id)

RECURSIVE Ranked(_, _)
Ranked(points, query_vector) ==
    IF points = {} THEN <<>>
    ELSE LET best == CHOOSE p \in points :
                        \A q \in points \ {p} : Better(query_vector, p, q)
         IN <<[id |-> best.id, score |-> Score(query_vector, best),
               payload |-> best.payload]>>
            \o Ranked(points \ {best}, query_vector)

\* faulty variant: the payload filter is not applied
search_points_Unfiltered(collection_name, query_vector, key, value, limit) ==
    LET ranked == Ranked(qdrant[collection_name], query_vector)
    IN SubSeq(ranked, 1, IF Len(ranked) < limit THEN Len(ranked) ELSE limit)

\* search_points, when the search succeeds: the limit best points that match
\* the equality filter key = value
search_points(collection_name, query_vector, key, value, limit) ==
    LET matching == {p \in qdrant[collection_name] : Get(p.payload, key, None) = value}
        ranked == Ranked(matching, query_vector)
    IN SubSeq(ranked, 1, IF Len(ranked) < limit THEN Len(ranked) ELSE limit)

\* --------------------------------------- handle_chat_message: merge (step 5)
KbBlock(source_file, chunk_text) ==
    <<"Context from Knowledge Base document '", source_file, "':", "\n">> \o chunk_text

UploadBlock(source_file, chunk_text) ==
    <<"Context from session uploaded file '", source_file, "':", "\n">> \o chunk_text

HistoryLine(speaker, text) == <<Capitalize(speaker), ":", " ">> \o text

SourceInfoSchema(type, filename, score, text) ==
    [type |-> type, filename |-> filename, score |-> score, text |-> text]

\* the accumulators of step 5; origins records, for each context chunk, the
\* partition and the point it was built from
EmptyMerge ==
    [context_chunks |-> <<>>, sources_for_response |-> <<>>,
     processed_qdrant_ids |-> {}, history_chunks_temp |-> <<>>,
     origins |-> <<>>, history_origins |-> <<>>]

\* for hit in kb_search_results
RECURSIVE ProcessKbResults(_, _)
ProcessKbResults(hits, acc) ==
    IF hits = <<>> THEN acc
    ELSE LET hit == Head(hits)
             chunk_text == Get(hit.payload, "text", NoneText)
             source_file == Get(hit.payload, "source_filename", "N/A")
             next ==
                 IF hit.id \in acc.processed_qdrant_ids THEN acc
                 ELSE IF Truthy(chunk_text)
                 THEN [acc EXCEPT
                         !.context_chunks = Append(@, KbBlock(source_file, chunk_text)),
                         !.sources_for_response =
                             Append(@, SourceInfoSchema("knowledge_base", source_file,
                                                        hit.score, Preview(chunk_text))),
                         !.processed_qdrant_ids = @ \cup {hit.id},
                         !.origins = Append(@, [partition |-> "kb", id |-> hit.id])]
                 ELSE acc
         IN ProcessKbResults(Tail(hits), next)

\* for hit in upload_search_results
RECURSIVE ProcessUploadResults(_, _)
ProcessUploadResults(hits, acc) ==
    IF hits = <<>> THEN acc
    ELSE LET hit == Head(hits)
             chunk_text == Get(hit.payload, "text", NoneText)
             source_file == Get(hit.payload, "source_filename", "N/A")
             next ==
                 IF hit.id \in acc.processed_qdrant_ids THEN acc
                 ELSE IF Truthy(chunk_text)
                 THEN [acc EXCEPT
                         !.context_chunks = Append(@, UploadBlock(source_file, chunk_text)),
                         !.sources_for_response =
                             Append(@, SourceInfoSchema("session_upload", source_file,
                                                        hit.score, Preview(chunk_text))),
                         !.processed_qdrant_ids = @ \cup {hit.id},
                         !.origins = Append(@, [partition |-> "upload", id |-> hit.id])]
                 ELSE acc
         IN ProcessUploadResults(Tail(hits), next)

\* faulty variant: the turn's own user message is not excluded
SkipHistoryHit_NoSelfExclusion(hit, processed_qdrant_ids, user_message_id) ==
    hit.id \in processed_qdrant_ids

\* faulty variant: ids seen in the KB and upload results are not skipped
SkipHistoryHit_NoDedup(hit, processed_qdrant_ids, user_message_id) ==
    hit.id = user_message_id

\* the test that skips a history hit
SkipHistoryHit(hit, processed_qdrant_ids, user_message_id) ==
    hit.id \in processed_qdrant_ids \/ hit.id = user_message_id

\* faulty variant: a history line is cited as a source, like a document chunk
RECURSIVE ProcessHistoryResults_Cited(_, _, _)
ProcessHistoryResults_Cited(hits, user_message_id, acc) ==
    IF hits = <<>> THEN acc
    ELSE LET hit == Head(hits)
             text == Get(hit.payload, "text", NoneText)
             speaker == Get(hit.payload, "speaker", "unknown")
             next ==
                 IF SkipHistoryHit(hit, acc.processed_qdrant_ids, user_message_id) THEN acc
                 ELSE IF Truthy(text)
                 THEN [acc EXCEPT
                         !.history_chunks_temp = Append(@, HistoryLine(speaker, text)),
                         !.sources_for_response =
                             Append(@, SourceInfoSchema("chat_history", speaker,
                                                        hit.score, Preview(text))),
                         !.processed_qdrant_ids = @ \cup {hit.id},
                         !.history_origins =
                             Append(@, [partition |-> "history", id |-> hit.id])]
                 ELSE acc
         IN ProcessHistoryResults_Cited(Tail(hits), user_message_id, next)

\* for hit in history_search_results
RECURSIVE ProcessHistoryResults(_, _, _)
ProcessHistoryResults(hits, user_message_id, acc) ==
    IF hits = <<>> THEN acc
    ELSE LET hit == Head(hits)
             text == Get(hit.payload, "text", NoneText)
             speaker == Get(hit.payload, "speaker", "unknown")
             next ==
                 IF SkipHistoryHit(hit, acc.processed_qdrant_ids, user_message_id) THEN acc
                 ELSE IF Truthy(text)
                 THEN [acc EXCEPT
                         !.history_chunks_temp = Append(@, HistoryLine(speaker, text)),
                         !.processed_qdrant_ids = @ \cup {hit.id},
                         !.history_origins =
                             Append(@, [partition |-> "history", id |-> hit.id])]
                 ELSE acc
         IN ProcessHistoryResults(Tail(hits), user_message_id, next)

\* faulty variant: the upload results are processed before the KB results
MergeResults_UploadsFirst(kb_hits, upload_hits, history_hits, user_message_id) ==
    ProcessHistoryResults(history_hits, user_message_id,
        ProcessKbResults(kb_hits,
            ProcessUploadResults(upload_hits, EmptyMerge)))

\* the three loops in the order of the code
MergeResults(kb_hits, upload_hits, history_hits, user_message_id) ==
    ProcessHistoryResults(history_hits, user_message_id,
        ProcessUploadResults(upload_hits,
            ProcessKbResults(kb_hits, EmptyMerge)))

\* faulty variant: the blank context is not replaced
ContextString_NoFallback(context_chunks) == Join(ContextSeparator, context_chunks)

\* context_chunks.extend(history_chunks_temp); join; fallback when blank
ContextString(context_chunks) ==
    LET context_string == Join(ContextSeparator, context_chunks)
    IN IF Strip(context_string) = <<>> THEN FallbackContext ELSE context_string

\* ------------------------------------------------- handle_chat_message steps
ConversationRow(conversation_id) ==
    CHOOSE c \in conversations : c.id = conversation_id

ConversationExists(conversation_id) ==
    \E c \in conversations : c.id = conversation_id

\* db.rollback(): the session's pending rows are dropped
Rollback(t) == [t EXCEPT !.session_new = {}]

\* except HTTPException as e: raise e
RaiseHttp(t, kind) == [t EXCEPT !.pc = "failed", !.error = kind]

\* except Exception as e: db.rollback(); raise HTTPException(500)
RaiseUnhandled(t, kind) == [Rollback(t) EXCEPT !.pc = "failed", !.error = kind]

\* the status code of the HTTPException that ends a failed turn
HttpStatus(kind) == IF kind = "not_found" THEN 404 ELSE 500

\* POST /chat/message arrives
StartChat(s, conversation_id, user_query) ==
    /\ turn[s].pc = "idle"
    /\ turns_started < MaxTurns
    /\ turns_started' = turns_started + 1
    /\ turn' = [turn EXCEPT ![s] = [BlankTurn EXCEPT
                    !.pc = "validate",
                    !.seq = turns_started + 1,
                    !.conversation_id = conversation_id,
                    !.user_query = user_query]]
    /\ UNCHANGED <<svcVars, conversations, messages, qdrant, kbVars, uploadVars>>

\* faulty variant: the message ids are not fresh, every turn uses the same two
ValidateConversation_ReusesIds(s) ==
    LET t == turn[s] IN
    /\ t.pc = "validate"
    /\ turn' = [turn EXCEPT ![s] =
            IF ~ConversationExists(t.conversation_id)
            THEN RaiseHttp(t, "not_found")
            ELSE [t EXCEPT
                    !.kb_id = ConversationRow(t.conversation_id).knowledge_base_id,
                    !.user_message_id = <<"msg", 1, 0>>,
                    !.ai_message_id = <<"msg", 1, 1>>,
                    !.pc = "embed"]]
    /\ UNCHANGED <<svcVars, conversations, messages, qdrant, turns_started, kbVars, uploadVars>>

\* faulty variant: the existence check comes after the query was embedded
ValidateConversation_AfterEmbedding(s) ==
    LET t == turn[s] IN
    /\ t.pc = "validate"
    /\ turn' = [turn EXCEPT ![s] =
            IF ~ConversationExists(t.conversation_id)
            THEN RaiseHttp([t EXCEPT !.query_vector = EmbeddingOf(t.user_query),
                                     !.calls = @ \cup {"embed_query"}], "not_found")
            ELSE [t EXCEPT
                    !.kb_id = ConversationRow(t.conversation_id).knowledge_base_id,
                    !.user_message_id = <<"msg", t.seq, 0>>,
                    !.ai_message_id = <<"msg", t.seq, 1>>,
                    !.pc = "embed"]]
    /\ UNCHANGED <<svcVars, conversations, messages, qdrant, turns_started, kbVars, uploadVars>>

\* step 1: read the linked KB id, re-check that the conversation exists,
\* then generate the two message ids (uuid4: ids that no other request has)
ValidateConversation(s) ==
    LET t == turn[s] IN
    /\ t.pc = "validate"
    /\ turn' = [turn EXCEPT ![s] =
            IF ~ConversationExists(t.conversation_id)
            THEN RaiseHttp(t, "not_found")
            ELSE [t EXCEPT
                    !.kb_id = ConversationRow(t.conversation_id).knowledge_base_id,
                    !.user_message_id = <<"msg", t.seq, 0>>,
                    !.ai_message_id = <<"msg", t.seq, 1>>,
                    !.pc = "embed"]]
    /\ UNCHANGED <<svcVars, conversations, messages, qdrant, turns_started, kbVars, uploadVars>>

\* faulty variant: the user message is added to the session before the query
\* is embedded
EmbedQuery_AfterAdd(s) ==
    LET t == turn[s]
        called == [t EXCEPT !.calls = @ \cup {"embed_query"},
                            !.session_new = @ \cup {MessageRow(t.user_message_id,
                                t.conversation_id, "user", t.user_query)}]
    IN
    /\ t.pc = "embed"
    /\ \E outcome \in {"ok", "raised", "wrong_count"} :
         turn' = [turn EXCEPT ![s] =
            CASE outcome = "ok" ->
                    [called EXCEPT !.query_vector = EmbeddingOf(t.user_query),
                                   !.pc = "persist_user"]
              [] outcome = "raised" -> RaiseUnhandled(called, "embedding")
              [] OTHER -> RaiseHttp(called, "embedding")]
    /\ UNCHANGED <<svcVars, conversations, messages, qdrant, turns_started, kbVars, uploadVars>>

\* step 2: embed_svc.get_embeddings([user_query]): one vector, or the call
\* raises after its retries (outer handler: rollback, HTTP 500), or the list
\* does not hold exactly one vector (HTTPException 500, re-raised as it is)
EmbedQuery(s) ==
    LET t == turn[s]
        called == [t EXCEPT !.calls = @ \cup {"embed_query"}]
    IN
    /\ t.pc = "embed"
    /\ \E outcome \in {"ok", "raised", "wrong_count"} :
         turn' = [turn EXCEPT ![s] =
            CASE outcome = "ok" ->
                    [called EXCEPT !.query_vector = EmbeddingOf(t.user_query),
                                   !.pc = "persist_user"]
              [] outcome = "raised" -> RaiseUnhandled(called, "embedding")
              [] OTHER -> RaiseHttp(called, "embedding")]
    /\ UNCHANGED <<svcVars, conversations, messages, qdrant, turns_started, kbVars, uploadVars>>

\* faulty variant: the handler of the failed upsert forgets db.rollback()
UserVectorFailed_NoRollback(t) == RaiseHttp(t, "index_write")

\* step 3, the upsert of the user point raised: rollback, HTTP 500
UserVectorFailed(t) == RaiseHttp(Rollback(t), "index_write")

\* faulty variant: the user message is committed on its own, as soon as its vector
\* is stored
PersistUserMessage_Commits(s) ==
    LET t == turn[s]
        db_user_message == MessageRow(t.user_message_id, t.conversation_id, "user", t.user_query)
        user_point == HistoryPoint(t.user_message_id, t.query_vector,
                                   t.conversation_id, "user", t.user_query)
    IN
    /\ t.pc = "persist_user"
    /\ \E ok \in BOOLEAN :
         IF ok
         THEN /\ qdrant' = add_points("collection_chat_history", {user_point})
              /\ messages' = messages \cup {db_user_message}
              /\ turn' = [turn EXCEPT ![s] = [t EXCEPT !.pc = "search_kb"]]
         ELSE /\ qdrant' = qdrant
              /\ messages' = messages
              /\ turn' = [turn EXCEPT ![s] = UserVectorFailed(t)]
    /\ UNCHANGED <<svcVars, conversations, turns_started, kbVars, uploadVars>>

\* faulty variant: the user point is not upserted before the searches
PersistUserMessage_UpsertDeferred(s) ==
    LET t == turn[s]
        db_user_message == MessageRow(t.user_message_id, t.conversation_id, "user", t.user_query)
    IN
    /\ t.pc = "persist_user"
    /\ turn' = [turn EXCEPT ![s] =
            [t EXCEPT !.session_new = @ \cup {db_user_message}, !.pc = "search_kb"]]
    /\ UNCHANGED <<svcVars, conversations, messages, qdrant, turns_started, kbVars, uploadVars>>

\* step 3: db.add(db_user_message), then upsert the user point
PersistUserMessage(s) ==
    LET t == turn[s]
        db_user_message == MessageRow(t.user_message_id, t.conversation_id, "user", t.user_query)
        user_point == HistoryPoint(t.user_message_id, t.query_vector,
                                   t.conversation_id, "user", t.user_query)
        added == [t EXCEPT !.session_new = @ \cup {db_user_message}]
    IN
    /\ t.pc = "persist_user"
    /\ \E ok \in BOOLEAN :
         IF ok
         THEN /\ qdrant' = add_points("collection_chat_history", {user_point})
              /\ turn' = [turn EXCEPT ![s] = [added EXCEPT !.pc = "search_kb"]]
         ELSE /\ qdrant' = qdrant
              /\ turn' = [turn EXCEPT ![s] = UserVectorFailed(added)]
    /\ UNCHANGED <<svcVars, conversations, messages, turns_started, kbVars, uploadVars>>

\* faulty variant: the exception of a partition search is not caught
SearchFailed_Raises(t, partition, next_pc) ==
    RaiseUnhandled([t EXCEPT !.search_errors = @ \cup {partition}], "search")

\* a partition search raised: the error is logged, the result list stays []
SearchFailed(t, partition, next_pc) ==
    [t EXCEPT !.search_errors = @ \cup {partition},
              !.calls = @ \cup {"search_" \o partition}, !.pc = next_pc]

\* faulty variant: without a linked KB the whole KB collection is searched
SearchKb_AllWhenUnlinked(s) ==
    LET t == turn[s] IN
    /\ t.pc = "search_kb"
    /\ \E ok \in BOOLEAN :
         turn' = [turn EXCEPT ![s] =
            IF ok
            THEN [t EXCEPT
                    !.kb_search_results =
                        IF t.kb_id = None
                        THEN search_points_Unfiltered("collection_kb", t.query_vector,
                                                      "kb_id", t.kb_id, search_limit_kb)
                        ELSE search_points("collection_kb", t.query_vector,
                                           "kb_id", t.kb_id, search_limit_kb),
                    !.calls = @ \cup {"search_kb"},
                    !.pc = "search_uploads"]
            ELSE SearchFailed(t, "kb", "search_uploads")]
    /\ UNCHANGED <<svcVars, conversations, messages, qdrant, turns_started, kbVars, uploadVars>>

\* step 4a: the KB search, skipped when no KB is linked
SearchKb(s) ==
    LET t == turn[s] IN
    /\ t.pc = "search_kb"
    /\ \E ok \in BOOLEAN :
         turn' = [turn EXCEPT ![s] =
            IF t.kb_id = None THEN [t EXCEPT !.pc = "search_uploads"]
            ELSE IF ok
            THEN [t EXCEPT
                    !.kb_search_results =
                        search_points("collection_kb", t.query_vector,
                                      "kb_id", t.kb_id, search_limit_kb),
                    !.calls = @ \cup {"search_kb"},
                    !.pc = "search_uploads"]
            ELSE SearchFailed(t, "kb", "search_uploads")]
    /\ UNCHANGED <<svcVars, conversations, messages, qdrant, turns_started, kbVars, uploadVars>>

\* step 4b: the session-upload search
SearchUploads(s) ==
    LET t == turn[s] IN
    /\ t.pc = "search_uploads"
    /\ \E ok \in BOOLEAN :
         turn' = [turn EXCEPT ![s] =
            IF ok
            THEN [t EXCEPT
                    !.upload_search_results =
                        search_points("collection_uploads", t.query_vector,
                                      "conversation_id", t.conversation_id,
                                      search_limit_uploads),
                    !.calls = @ \cup {"search_upload"},
                    !.pc = "search_history"]
            ELSE SearchFailed(t, "upload", "search_history")]
    /\ UNCHANGED <<svcVars, conversations, messages, qdrant, turns_started, kbVars, uploadVars>>

\* step 4c: the chat-history search, one hit more than the cap
SearchHistory(s) ==
    LET t == turn[s] IN
    /\ t.pc = "search_history"
    /\ \E ok \in BOOLEAN :
         turn' = [turn EXCEPT ![s] =
            IF ok
            THEN [t EXCEPT
                    !.history_search_results =
                        search_points("collection_chat_history", t.query_vector,
                                      "conversation_id", t.conversation_id,
                                      search_limit_history + 1),
                    !.calls = @ \cup {"search_history"},
                    !.pc = "combine"]
            ELSE SearchFailed(t, "history", "combine")]
    /\ UNCHANGED <<svcVars, conversations, messages, qdrant, turns_started, kbVars, uploadVars>>

\* steps 5 and 6: merge the hits and build the context of the prompt
CombineContext(s) ==
    LET t == turn[s]
        m == MergeResults(t.kb_search_results, t.upload_search_results,
                          t.history_search_results, t.user_message_id)
    IN
    /\ t.pc = "combine"
    /\ turn' = [turn EXCEPT ![s] = [t EXCEPT
            !.context_string = ContextString(m.context_chunks \o m.history_chunks_temp),
            !.sources_for_response = m.sources_for_response,
            !.origins = m.origins \o m.history_origins,
            !.pc = "generate"]]
    /\ UNCHANGED <<svcVars, conversations, messages, qdrant, turns_started, kbVars, uploadVars>>

\* faulty variant: the stored model id is passed on as it is
ModelIdOf_Stored(conversation_id) == ConversationRow(conversation_id).model_id

\* _sync_get_model_id: the conversation's model id, or the default
ModelIdOf(conversation_id) ==
    LET model == ConversationRow(conversation_id).model_id
    IN IF model = None \/ model = "" THEN DefaultModel ELSE model

\* faulty variant: the provider's error is re-raised as it is, without the rollback
GenerationFailed_NoRollback(t) == RaiseHttp(t, "generation")

\* step 7, generate_text raised after its retries: the outer handler rolls
\* the session back and answers HTTP 500
GenerationFailed(t) == RaiseUnhandled(t, "generation")

\* step 7: read the model id and call the generation provider
Generate(s) ==
    LET t == turn[s]
        called == [t EXCEPT !.model_id = ModelIdOf(t.conversation_id),
                            !.calls = @ \cup {"generate"}]
    IN
    /\ t.pc = "generate"
    /\ \/ \E text \in Responses :
            turn' = [turn EXCEPT ![s] =
                [called EXCEPT !.ai_response_text = text, !.pc = "persist_ai"]]
       \/ turn' = [turn EXCEPT ![s] = GenerationFailed(called)]
    /\ UNCHANGED <<svcVars, conversations, messages, qdrant, turns_started, kbVars, uploadVars>>

\* faulty variant: the failure of the AI point is not caught
AiVectorFailed_Raises(t) == RaiseUnhandled([t EXCEPT !.ai_vector_error = TRUE], "ai_vector")

\* step 8, embedding or upserting the AI point raised: logged, not raised
AiVectorFailed(t) == [t EXCEPT !.ai_vector_error = TRUE, !.pc = "commit"]

\* step 8: db.add(db_ai_message), embed the response, upsert the AI point
PersistAiMessage(s) ==
    LET t == turn[s]
        db_ai_message == MessageRow(t.ai_message_id, t.conversation_id, "ai", t.ai_response_text)
        ai_point == HistoryPoint(t.ai_message_id, EmbeddingOf(t.ai_response_text),
                                 t.conversation_id, "ai", t.ai_response_text)
        added == [t EXCEPT !.session_new = @ \cup {db_ai_message},
                           !.calls = @ \cup {"embed_ai"}]
    IN
    /\ t.pc = "persist_ai"
    /\ \E outcome \in {"ok", "embed_raised", "upsert_raised"} :
         IF outcome = "ok"
         THEN /\ qdrant' = add_points("collection_chat_history", {ai_point})
              /\ turn' = [turn EXCEPT ![s] = [added EXCEPT !.pc = "commit"]]
         ELSE /\ qdrant' = qdrant
              /\ turn' = [turn EXCEPT ![s] = AiVectorFailed(added)]
    /\ UNCHANGED <<svcVars, conversations, messages, turns_started, kbVars, uploadVars>>

\* faulty variant: a failed commit is answered without any rollback
CommitFailed_NoRollback(t) == RaiseHttp(t, "commit")

\* db.commit() raised: _sync_commit_messages rolls back and re-raises, and
\* the outer handler answers HTTP 500
CommitFailed(t) == RaiseUnhandled(t, "commit")

ChatResponseSchema(response, conversation_id, sources) ==
    <<[response |-> response, conversation_id |-> conversation_id, sources |-> sources]>>

\* _sync_commit_messages and step 9: one commit of the pending rows, then
\* the response
CommitMessages(s) ==
    LET t == turn[s] IN
    /\ t.pc = "commit"
    /\ \E ok \in BOOLEAN :
         IF ok
         THEN /\ messages' = messages \cup t.session_new
              /\ turn' = [turn EXCEPT ![s] = [t EXCEPT
                    !.session_new = {},
                    !.response = ChatResponseSchema(t.ai_response_text, t.conversation_id,
                                                    t.sources_for_response),
                    !.pc = "done"]]
         ELSE /\ messages' = messages
              /\ turn' = [turn EXCEPT ![s] = CommitFailed(t)]
    /\ UNCHANGED <<svcVars, conversations, qdrant, turns_started, kbVars, uploadVars>>

\* get_db's finally: db.close() ends the request; what was pending is gone
CloseSession(s) ==
    /\ turn[s].pc \in {"done", "failed"}
    /\ turn' = [turn EXCEPT ![s] = BlankTurn]
    /\ UNCHANGED <<svcVars, conversations, messages, qdrant, turns_started, kbVars, uploadVars>>

ChatStep(s) ==
    \/ ValidateConversation(s)
    \/ EmbedQuery(s)
    \/ PersistUserMessage(s)
    \/ SearchKb(s)
    \/ SearchUploads(s)
    \/ SearchHistory(s)
    \/ CombineContext(s)
    \/ Generate(s)
    \/ PersistAiMessage(s)
    \/ CommitMessages(s)
    \/ CloseSession(s)

\* ------------------------------------------------ knowledge-base documents
\* the files a client uploads, each at most once; FileNo numbers the upload
KbFiles == {"a.pdf", "b.png"}
SessionFiles == {"notes.txt", "blank.txt"}
FileNo(f) == CASE f = "a.pdf" -> 1 [] f = "notes.txt" -> 2 [] f = "b.png" -> 3
                [] f = "blank.txt" -> 4 [] OTHER -> 0

\* chunk i of an extracted text; the splitter returns no empty chunk
ChunkText(i) == <<"chunk", ToString(i)>>

\* the extension after the last dot of a file name, in lower case
FileExtension(f) == CASE f = "a.pdf" -> "pdf" [] f = "b.png" -> "png"
                      [] f \in {"notes.txt", "blank.txt"} -> "txt" [] OTHER -> ""

is_image(f) == FileExtension(f) \in {"jpg", "jpeg", "png", "gif", "bmp", "webp"}

\* a job's position and locals: outcome is what its try block met, chunks the
\* length of chunks_to_embed, http_status the status code of the upload
\* request, request_session the session of the upload request and session the
\* one the job works with
BlankKbTask ==
    [pc |-> "none", kb_id |-> None, kb_doc_id |-> NoId, qdrant_doc_id |-> NoId,
     status |-> None, error_msg |-> None, session_open |-> FALSE,
     outcome |-> None, chunks |-> 0, http_status |-> 0,
     request_session |-> NoId, session |-> NoId]

\* the session that get_db makes for the request of file f, and the one that
\* the job gets from db_session_factory
RequestSession(f) == <<"session", FileNo(f), 0>>
JobSession(f) == <<"session", FileNo(f), 1>>

KbExists(kb_id) == \E k \in knowledge_bases : k.id = kb_id

\* upload_kb_document: reject an unknown KB (the HTTPException 404 is raised
\* inside the try whose except Exception answers 500), add the document row in
\* status processing, queue the background job, commit
UploadKbDocument(kb_id, f, commit_ok) ==
    /\ kb_task[f].pc = "none"
    /\ IF ~KbExists(kb_id)
       THEN /\ kb_task' = [kb_task EXCEPT ![f] = [BlankKbTask EXCEPT
                    !.pc = "rejected", !.kb_id = kb_id, !.http_status = 500,
                    !.request_session = RequestSession(f)]]
            /\ kb_documents' = kb_documents
       ELSE LET kb_doc_id == <<"kbdoc", FileNo(f), 0>>
                qdrant_doc_id == <<"kbqdoc", FileNo(f), 0>>
            IN IF commit_ok
               THEN /\ kb_documents' = kb_documents \cup
                        {[id |-> kb_doc_id, knowledge_base_id |-> kb_id,
                          qdrant_doc_id |-> qdrant_doc_id, filename |-> f,
                          status |-> "processing", error_message |-> None]}
                    /\ kb_task' = [kb_task EXCEPT ![f] = [BlankKbTask EXCEPT
                            !.pc = "queued", !.kb_id = kb_id,
                            !.request_session = RequestSession(f),
                            !.http_status = 202,
                            !.kb_doc_id = kb_doc_id, !.qdrant_doc_id = qdrant_doc_id]]
               ELSE /\ kb_documents' = kb_documents
                    /\ kb_task' = [kb_task EXCEPT ![f] = [BlankKbTask EXCEPT
                            !.pc = "rejected", !.kb_id = kb_id, !.http_status = 500,
                            !.request_session = RequestSession(f)]]
    /\ UNCHANGED <<svcVars, conversations, messages, qdrant, turn, turns_started,
                   knowledge_bases, uploadVars>>

KbPoint(f, i, kb_id, qdrant_doc_id) ==
    [id |-> <<"kbpoint", FileNo(f), i>>, vector |-> EmbeddingOf(ChunkText(i)),
     payload |-> [kb_id |-> kb_id, doc_id |-> qdrant_doc_id, filename |-> f,
                  chunk_seq_num |-> i, text |-> ChunkText(i)]]

\* what one run of the job's try block can meet: a failure of the image
\* upload or of the image description, a failure of the extraction, no chunk,
\* or n chunks and then a failure of the embedding, an embedding list of
\* another length, a failure of the upsert, or success
KbOutcomes ==
    [kind : {"image_upload_raised", "description_raised", "extract_raised",
             "no_content"}, n : {0}]
    \cup [kind : {"embed_raised", "count_mismatch", "upsert_raised", "ok"},
          n : 1..MaxChunks]

\* the image path uploads and describes the file, the other path extracts it
KbOutcomesOf(f) ==
    {o \in KbOutcomes :
        /\ o.kind \in {"image_upload_raised", "description_raised"} => is_image(f)
        /\ o.kind = "extract_raised" => ~is_image(f)}

\* the message the try block leaves for the status update
KbErrorMsg(f, kind) ==
    CASE kind = "ok" -> None
      [] kind = "image_upload_raised" -> "Cloudinary upload exception"
      [] kind = "description_raised" -> "Error during Vision API call/processing"
      [] kind = "extract_raised" -> "Error during document processing"
      [] kind = "no_content" ->
             IF is_image(f)
             THEN "Vision API returned empty or invalid description."
             ELSE "Document processor returned no content for non-image file."
      [] kind = "count_mismatch" -> "Embedding count mismatch."
      [] OTHER -> "Embedding/Storage failed"

\* faulty variant: a failure of extraction, embedding or indexing ends the job
\* before its status update
KbTaskProcess_DiesOnFailure(f, o) ==
    LET j == kb_task[f] IN
    /\ j.pc = "queued"
    /\ o \in KbOutcomesOf(f)
    /\   /\ qdrant' =
              IF o.kind = "ok"
              THEN add_points("collection_kb",
                       {KbPoint(f, i, j.kb_id, j.qdrant_doc_id) : i \in 0..(o.n - 1)})
              ELSE qdrant
         /\ kb_task' = [kb_task EXCEPT ![f] = [j EXCEPT
              !.pc = IF o.kind = "ok" THEN "finalize" ELSE "closed",
              !.session_open = (o.kind = "ok"), !.session = JobSession(f),
              !.outcome = o.kind, !.chunks = o.n,
              !.status = IF o.kind = "ok" THEN "completed" ELSE "error",
              !.error_msg = IF o.kind = "ok" THEN None ELSE "Unexpected Task Error"]]
    /\ UNCHANGED <<svcVars, conversations, messages, turn, turns_started, knowledge_bases,
                   kb_documents, uploadVars>>

\* faulty variant: a file without chunks is marked completed
KbTaskProcess_CompletesEmpty(f, o) ==
    LET j == kb_task[f]
        done == o.kind \in {"ok", "no_content"}
    IN
    /\ j.pc = "queued"
    /\ o \in KbOutcomesOf(f)
    /\   /\ qdrant' =
              IF o.kind = "ok"
              THEN add_points("collection_kb",
                       {KbPoint(f, i, j.kb_id, j.qdrant_doc_id) : i \in 0..(o.n - 1)})
              ELSE qdrant
         /\ kb_task' = [kb_task EXCEPT ![f] = [j EXCEPT
              !.pc = "finalize",
              !.session_open = TRUE, !.session = JobSession(f),
              !.outcome = o.kind, !.chunks = o.n,
              !.status = IF done THEN "completed" ELSE "error",
              !.error_msg = IF done THEN None ELSE KbErrorMsg(f, o.kind)]]
    /\ UNCHANGED <<svcVars, conversations, messages, turn, turns_started, knowledge_bases,
                   kb_documents, uploadVars>>

\* faulty variant: a failure of the upsert is swallowed and the job goes on to
\* mark the document completed
KbTaskProcess_IgnoresUpsertError(f, o) ==
    LET j == kb_task[f]
        done == o.kind \in {"ok", "upsert_raised"}
    IN
    /\ j.pc = "queued"
    /\ o \in KbOutcomesOf(f)
    /\   /\ qdrant' =
              IF o.kind = "ok"
              THEN add_points("collection_kb",
                       {KbPoint(f, i, j.kb_id, j.qdrant_doc_id) : i \in 0..(o.n - 1)})
              ELSE qdrant
         /\ kb_task' = [kb_task EXCEPT ![f] = [j EXCEPT
              !.pc = "finalize",
              !.session_open = TRUE, !.session = JobSession(f),
              !.outcome = o.kind, !.chunks = o.n,
              !.status = IF done THEN "completed" ELSE "error",
              !.error_msg = IF done THEN None ELSE KbErrorMsg(f, o.kind)]]
    /\ UNCHANGED <<svcVars, conversations, messages, turn, turns_started, knowledge_bases,
                   kb_documents, uploadVars>>

\* faulty variant: the chunks are upserted one by one, so the upsert that
\* raises leaves the chunks before it in the index
KbTaskProcess_PartialUpsert(f, o) ==
    LET j == kb_task[f] IN
    /\ j.pc = "queued"
    /\ o \in KbOutcomesOf(f)
    /\   /\ qdrant' =
              IF o.kind = "ok"
              THEN add_points("collection_kb",
                       {KbPoint(f, i, j.kb_id, j.qdrant_doc_id) : i \in 0..(o.n - 1)})
              ELSE IF o.kind = "upsert_raised"
              THEN add_points("collection_kb", {KbPoint(f, 0, j.kb_id, j.qdrant_doc_id)})
              ELSE qdrant
         /\ kb_task' = [kb_task EXCEPT ![f] = [j EXCEPT
              !.pc = "finalize",
              !.session_open = TRUE, !.session = JobSession(f),
              !.outcome = o.kind, !.chunks = o.n,
              !.status = IF o.kind = "ok" THEN "completed" ELSE "error",
              !.error_msg = KbErrorMsg(f, o.kind)]]
    /\ UNCHANGED <<svcVars, conversations, messages, turn, turns_started, knowledge_bases,
                   kb_documents, uploadVars>>

\* process_kb_upload_task, the try block: open a session, extract and chunk,
\* embed, upsert; leaves the status and the message to write
KbTaskProcess(f, o) ==
    LET j == kb_task[f] IN
    /\ j.pc = "queued"
    /\ o \in KbOutcomesOf(f)
    /\   /\ qdrant' =
              IF o.kind = "ok"
              THEN add_points("collection_kb",
                       {KbPoint(f, i, j.kb_id, j.qdrant_doc_id) : i \in 0..(o.n - 1)})
              ELSE qdrant
         /\ kb_task' = [kb_task EXCEPT ![f] = [j EXCEPT
              !.pc = "finalize",
              !.session_open = TRUE, !.session = JobSession(f),
              !.outcome = o.kind, !.chunks = o.n,
              !.status = IF o.kind = "ok" THEN "completed" ELSE "error",
              !.error_msg = KbErrorMsg(f, o.kind)]]
    /\ UNCHANGED <<svcVars, conversations, messages, turn, turns_started, knowledge_bases,
                   kb_documents, uploadVars>>

\* faulty variant: the status update selects the documents by knowledge base,
\* not by document id
KbTaskFinalize_ByKb(f, commit_ok) ==
    LET j == kb_task[f] IN
    /\ j.pc = "finalize"
    /\   kb_documents' =
            IF commit_ok
            THEN {IF d.knowledge_base_id = j.kb_id
                  THEN [d EXCEPT !.status = j.status, !.error_message = j.error_msg]
                  ELSE d : d \in kb_documents}
            ELSE kb_documents
    /\ kb_task' = [kb_task EXCEPT ![f] = [j EXCEPT !.pc = "closed", !.session_open = FALSE]]
    /\ UNCHANGED <<svcVars, conversations, messages, qdrant, turn, turns_started,
                   knowledge_bases, uploadVars>>

\* faulty variant: the session is closed after the commit, in the same try
KbTaskFinalize_LeaksOnCommitFailure(f, commit_ok) ==
    LET j == kb_task[f] IN
    /\ j.pc = "finalize"
    /\   kb_documents' =
            IF commit_ok
            THEN {IF d.id = j.kb_doc_id
                  THEN [d EXCEPT !.status = j.status, !.error_message = j.error_msg]
                  ELSE d : d \in kb_documents}
            ELSE kb_documents
    /\ kb_task' = [kb_task EXCEPT ![f] =
            [j EXCEPT !.pc = "closed", !.session_open = ~commit_ok]]
    /\ UNCHANGED <<svcVars, conversations, messages, qdrant, turn, turns_started,
                   knowledge_bases, uploadVars>>

\* process_kb_upload_task, the finally block: write status and message to the
\* document row and commit (or roll back), then close the session
KbTaskFinalize(f, commit_ok) ==
    LET j == kb_task[f] IN
    /\ j.pc = "finalize"
    /\   kb_documents' =
            IF commit_ok
            THEN {IF d.id = j.kb_doc_id
                  THEN [d EXCEPT !.status = j.status, !.error_message = j.error_msg]
                  ELSE d : d \in kb_documents}
            ELSE kb_documents
    /\ kb_task' = [kb_task EXCEPT ![f] = [j EXCEPT !.pc = "closed", !.session_open = FALSE]]
    /\ UNCHANGED <<svcVars, conversations, messages, qdrant, turn, turns_started,
                   knowledge_bases, uploadVars>>

\* --------------------------------------------------------- session uploads
BlankUpload ==
    [pc |-> "none", conversation_id |-> None, session_doc_id |-> NoId,
     chunks_added |-> 0, error |-> None, outcome |-> None]

\* faulty variant: the grouping id is generated inside the loop, one per chunk
UploadPoint_OwnDocId(f, i, conversation_id, session_doc_id) ==
    [id |-> <<"uppoint", FileNo(f), i>>, vector |-> EmbeddingOf(ChunkText(i)),
     payload |-> [doc_id |-> <<"updoc", FileNo(f), i>>, source_filename |-> f,
                  chunk_seq_num |-> i, text |-> ChunkText(i),
                  conversation_id |-> conversation_id]]

\* the point of chunk i of a session file
UploadPoint(f, i, conversation_id, session_doc_id) ==
    [id |-> <<"uppoint", FileNo(f), i>>, vector |-> EmbeddingOf(ChunkText(i)),
     payload |-> [doc_id |-> session_doc_id, source_filename |-> f,
                  chunk_seq_num |-> i, text |-> ChunkText(i),
                  conversation_id |-> conversation_id]]

UploadOutcomes ==
    {[kind |-> "extract_raised", n |-> 0], [kind |-> "no_content", n |-> 0]}
    \cup [kind : {"embed_raised", "upsert_raised", "ok"}, n : 1..MaxChunks]

\* faulty variant: a file without chunks goes on to the metadata, as an
\* indexed file does
UploadFileIndex_RecordsEmpty(conversation_id, f, o) ==
    /\ upload[f].pc = "none"
    /\ ConversationExists(conversation_id)
    /\ qdrant' =
         IF o.kind = "ok"
         THEN add_points("collection_uploads",
                  {UploadPoint(f, i, conversation_id, <<"updoc", FileNo(f), 0>>) :
                       i \in 0..(o.n - 1)})
         ELSE qdrant
    /\ upload' = [upload EXCEPT ![f] = [BlankUpload EXCEPT
         !.conversation_id = conversation_id,
         !.outcome = o.kind,
         !.pc = IF o.kind \in {"ok", "no_content"} THEN "save_meta" ELSE "failed",
         !.session_doc_id = <<"updoc", FileNo(f), 0>>,
         !.chunks_added = IF o.kind = "ok" THEN o.n ELSE 0,
         !.error = IF o.kind \in {"ok", "no_content"} THEN None ELSE o.kind]]
    /\ UNCHANGED <<svcVars, conversations, messages, turn, turns_started, kbVars,
                   uploaded_documents>>

\* upload_file_to_conversation up to the upsert: check the conversation,
\* extract and chunk, embed, upsert the chunk points
UploadFileIndex(conversation_id, f, o) ==
    /\ upload[f].pc = "none"
    /\ IF ~ConversationExists(conversation_id)
       THEN /\ upload' = [upload EXCEPT ![f] = [BlankUpload EXCEPT
                    !.pc = "failed", !.conversation_id = conversation_id,
                    !.error = "not_found"]]
            /\ qdrant' = qdrant
       ELSE LET session_doc_id == <<"updoc", FileNo(f), 0>> IN
            /\ qdrant' =
                 IF o.kind = "ok"
                 THEN add_points("collection_uploads",
                          {UploadPoint(f, i, conversation_id, session_doc_id) :
                               i \in 0..(o.n - 1)})
                 ELSE qdrant
            /\ upload' = [upload EXCEPT ![f] = [BlankUpload EXCEPT
                 !.conversation_id = conversation_id,
                 !.outcome = o.kind,
                 !.pc = CASE o.kind = "ok" -> "save_meta"
                          [] o.kind = "no_content" -> "done"
                          [] OTHER -> "failed",
                 !.session_doc_id = IF o.kind = "ok" THEN session_doc_id ELSE NoId,
                 !.chunks_added = IF o.kind = "ok" THEN o.n ELSE 0,
                 !.error = IF o.kind \in {"ok", "no_content"} THEN None ELSE o.kind]]
    /\ UNCHANGED <<svcVars, conversations, messages, turn, turns_started, kbVars,
                   uploaded_documents>>

\* upload_file of the upload router: the same steps without the check of the
\* conversation
UploadFile(conversation_id, f, o) ==
    LET session_doc_id == <<"updoc", FileNo(f), 0>> IN
    /\ upload[f].pc = "none"
    /\ qdrant' =
         IF o.kind = "ok"
         THEN add_points("collection_uploads",
                  {UploadPoint(f, i, conversation_id, session_doc_id) :
                       i \in 0..(o.n - 1)})
         ELSE qdrant
    /\ upload' = [upload EXCEPT ![f] = [BlankUpload EXCEPT
         !.conversation_id = conversation_id,
         !.outcome = o.kind,
         !.pc = CASE o.kind = "ok" -> "save_meta"
                  [] o.kind = "no_content" -> "done"
                  [] OTHER -> "failed",
         !.session_doc_id = IF o.kind = "ok" THEN session_doc_id ELSE NoId,
         !.chunks_added = IF o.kind = "ok" THEN o.n ELSE 0,
         !.error = IF o.kind \in {"ok", "no_content"} THEN None ELSE o.kind]]
    /\ UNCHANGED <<svcVars, conversations, messages, turn, turns_started, kbVars,
                   uploaded_documents>>

\* faulty variant: a failure of the metadata save is logged and the request
\* is answered as a success
UploadFileSaveMeta_SwallowsFailure(f, commit_ok) ==
    LET u == upload[f] IN
    /\ u.pc = "save_meta"
    /\   IF commit_ok
         THEN /\ uploaded_documents' = uploaded_documents \cup
                    {[id |-> <<"uprow", FileNo(f), 0>>,
                      conversation_id |-> u.conversation_id,
                      doc_id |-> u.session_doc_id, filename |-> f]}
              /\ messages' = messages \cup
                    {MessageRow(<<"sysmsg", FileNo(f), 0>>, u.conversation_id, "system",
                                <<"Processed session file: ", f>>)}
         ELSE /\ uploaded_documents' = uploaded_documents
              /\ messages' = messages
    /\ upload' = [upload EXCEPT ![f] = [u EXCEPT !.pc = "done"]]
    /\ UNCHANGED <<svcVars, conversations, qdrant, turn, turns_started, kbVars>>

\* _sync_db_save_upload_meta: the UploadedDocument row and the system
\* message, in one commit
UploadFileSaveMeta(f, commit_ok) ==
    LET u == upload[f] IN
    /\ u.pc = "save_meta"
    /\   IF commit_ok
         THEN /\ uploaded_documents' = uploaded_documents \cup
                    {[id |-> <<"uprow", FileNo(f), 0>>,
                      conversation_id |-> u.conversation_id,
                      doc_id |-> u.session_doc_id, filename |-> f]}
              /\ messages' = messages \cup
                    {MessageRow(<<"sysmsg", FileNo(f), 0>>, u.conversation_id, "system",
                                <<"Processed session file: ", f>>)}
              /\ upload' = [upload EXCEPT ![f] = [u EXCEPT !.pc = "done"]]
         ELSE /\ uploaded_documents' = uploaded_documents
              /\ messages' = messages
              /\ upload' = [upload EXCEPT ![f] =
                    [u EXCEPT !.pc = "failed", !.error = "db_save"]]
    /\ UNCHANGED <<svcVars, conversations, qdrant, turn, turns_started, kbVars>>

\* ------------------------------------------------ creation of knowledge bases
\* the handlers that serve create_knowledge_base requests, each in a thread of
\* the pool and with a session of its own, and the names a client can send
KbCreators == {"k1", "k2"}
KbNames == {"docs", "other", "new"}

BlankKbCreate == [pc |-> "idle", name |-> None, http_status |-> 0, id |-> None]

\* uuid4: an id that no row has and no request in flight holds
NewKbId == "kb" \o ToString(Cardinality(knowledge_bases) + 1
                 + Cardinality({r \in KbCreators : kb_create[r].pc = "checked"}))

\* create_knowledge_base, the query of _sync_create_kb: a row of that name
\* raises ValueError, answered 409 after the rollback
CreateKbCheck(r, name) ==
    /\ kb_create[r].pc = "idle"
    /\ Cardinality(knowledge_bases)
          + Cardinality({x \in KbCreators : kb_create[x].pc = "checked"}) < MaxKbRows
    /\ kb_create' = [kb_create EXCEPT ![r] =
          IF \E k \in knowledge_bases : k.name = name
          THEN [BlankKbCreate EXCEPT !.pc = "done", !.name = name, !.http_status = 409]
          ELSE [BlankKbCreate EXCEPT !.pc = "checked", !.name = name, !.id = NewKbId]]
    /\ UNCHANGED <<provider_call, conversations, messages, qdrant, turn,
                   turns_started, kbVars, uploadVars>>

\* create_knowledge_base, db.add and db.commit of _sync_create_kb: the row is
\* inserted, the table has no constraint on the name; a failed commit is
\* rolled back and answered 500
CreateKbAdd(r, commit_ok) ==
    LET c == kb_create[r] IN
    /\ c.pc = "checked"
    /\ knowledge_bases' =
          IF commit_ok
          THEN knowledge_bases \cup {[id |-> c.id, name |-> c.name]}
          ELSE knowledge_bases
    /\ kb_create' = [kb_create EXCEPT ![r] =
          [c EXCEPT !.pc = "done", !.http_status = IF commit_ok THEN 201 ELSE 500]]
    /\ UNCHANGED <<provider_call, conversations, messages, qdrant, turn,
                   turns_started, kb_documents, kb_task, uploadVars>>

\* the response is sent and the handler takes the next request
CreateKbReturn(r) ==
    /\ kb_create[r].pc = "done"
    /\ kb_create' = [kb_create EXCEPT ![r] = BlankKbCreate]
    /\ UNCHANGED <<provider_call, conversations, messages, qdrant, turn,
                   turns_started, kbVars, uploadVars>>

\* ------------------------------------------------ creation of conversations
\* the bodies a client can send: none, or a knowledge-base id (absent, known
\* or unknown) with a model id, which the schema defaults but lets be empty
ConversationPayloads ==
    {[present |-> FALSE, knowledge_base_id |-> None, model_id |-> None]}
    \cup [present : {TRUE}, knowledge_base_id : {None, "kb1", "kb9"},
          model_id : {"", "mistral", DefaultModel}]

\* create_conversation: the link to an unknown KB is dropped, the model id of
\* the payload is stored as it is, the default when there is no payload; a
\* failed commit is rolled back and leaves no row
CreateConversation(payload, commit_ok) ==
    LET conversation_id == "c3"
        kb_id_to_store ==
            IF payload.present /\ payload.knowledge_base_id # None
                  /\ KbExists(payload.knowledge_base_id)
            THEN payload.knowledge_base_id ELSE None
        model_id_to_store == IF payload.present THEN payload.model_id ELSE DefaultModel
    IN
    /\ ~ConversationExists(conversation_id)
    /\ conversations' =
          IF commit_ok
          THEN conversations \cup
                 {[id |-> conversation_id, knowledge_base_id |-> kb_id_to_store,
                   model_id |-> model_id_to_store]}
          ELSE conversations
    /\ UNCHANGED <<svcVars, messages, qdrant, turn, turns_started, kbVars, uploadVars>>

\* ------------------------------------------------ retried provider methods
\* EmbeddingService.get_embeddings and TogetherService.generate_text, each
\* under a tenacity retry that re-runs the method while it raises
ProviderOps == {"get_embeddings", "generate_text"}

\* faulty variant: one more attempt than the decorators allow
stop_after_attempt_OneMore(op) ==
    IF op = "get_embeddings" THEN EmbeddingAttempts + 1 ELSE GenerationAttempts + 1

stop_after_attempt(op) ==
    IF op = "get_embeddings" THEN EmbeddingAttempts ELSE GenerationAttempts

\* a vector is modelled by its dimension
Dimensions == {EXPECTED_EMBEDDING_DIMENSION, 384}

VectorLists == UNION {[1..k -> Dimensions] : k \in 0..MaxTexts}

\* what the remote API can answer to one attempt: an error, or a body
ApiResponses(op) ==
    IF op = "get_embeddings"
    THEN {[kind |-> "raise", vectors |-> <<>>, content |-> <<>>]}
         \cup {[kind |-> "body", vectors |-> v, content |-> <<>>] : v \in VectorLists}
    ELSE {[kind |-> "raise", vectors |-> <<>>, content |-> <<>>]}
         \cup {[kind |-> "body", vectors |-> <<>>, content |-> c] :
                  c \in {<<>>, <<"answer">>, <<"answer", " ">>}}

\* the body of get_embeddings on n texts: no text, no request; a failed
\* request, a list of another length or a first vector of another dimension
\* raises
get_embeddings(n, resp) ==
    CASE n = 0 -> [raised |-> None, vectors |-> <<>>]
      [] resp.kind = "raise" -> [raised |-> "api_error", vectors |-> <<>>]
      [] Len(resp.vectors) # n -> [raised |-> "count_mismatch", vectors |-> <<>>]
      [] resp.vectors[1] # EXPECTED_EMBEDDING_DIMENSION ->
             [raised |-> "dimension_mismatch", vectors |-> <<>>]
      [] OTHER -> [raised |-> None, vectors |-> resp.vectors]

\* the body of generate_text: a failed request or a response without content
\* raises, the content is returned stripped
generate_text(resp) ==
    CASE resp.kind = "raise" -> [raised |-> "api_error", text |-> <<>>]
      [] ~Truthy(resp.content) -> [raised |-> "invalid_response", text |-> <<>>]
      [] OTHER -> [raised |-> None, text |-> Strip(resp.content)]

\* errors lists what each failed attempt raised
BlankProviderCall ==
    [pc |-> "idle", op |-> None, n |-> 0, attempts |-> 0, errors |-> <<>>,
     vectors |-> <<>>, text |-> <<>>, error |-> None]

ProviderCallStart(op, n) ==
    /\ provider_call.pc = "idle"
    /\ op = "generate_text" => n = 1
    /\ provider_call' = [BlankProviderCall EXCEPT !.pc = "calling", !.op = op, !.n = n]
    /\ UNCHANGED <<kb_create, conversations, messages, qdrant, turn, turns_started,
                   kbVars, uploadVars>>

\* one attempt under @retry: a return ends the call; a raise is retried until
\* stop_after_attempt is reached, then RetryError goes to the caller
ProviderAttempt(resp) ==
    LET c == provider_call
        r == IF c.op = "get_embeddings"
             THEN [raised |-> get_embeddings(c.n, resp).raised,
                   vectors |-> get_embeddings(c.n, resp).vectors, text |-> <<>>]
             ELSE [raised |-> generate_text(resp).raised,
                   vectors |-> <<>>, text |-> generate_text(resp).text]
        attempts == c.attempts + 1
    IN
    /\ c.pc = "calling"
    /\ resp \in ApiResponses(c.op)
    /\ provider_call' =
          IF r.raised = None
          THEN [c EXCEPT !.pc = "returned", !.attempts = attempts,
                         !.vectors = r.vectors, !.text = r.text]
          ELSE [c EXCEPT !.pc = IF attempts >= stop_after_attempt(c.op)
                                THEN "raised" ELSE "calling",
                         !.attempts = attempts,
                         !.errors = Append(c.errors, r.raised),
                         !.error = IF attempts >= stop_after_attempt(c.op)
                                   THEN "RetryError" ELSE None]
    /\ UNCHANGED <<kb_create, conversations, messages, qdrant, turn, turns_started,
                   kbVars, uploadVars>>

\* ------------------------------------------------------------ specification
\* a deployment with two knowledge bases, a conversation linked to the first
\* and a conversation without one; the tables of messages and documents and
\* the three collections are empty
Init ==
    /\ knowledge_bases = {[id |-> "kb1", name |-> "docs"], [id |-> "kb2", name |-> "other"]}
    /\ conversations =
         {[id |-> "c1", knowledge_base_id |-> "kb1", model_id |-> "mistral"],
          [id |-> "c2", knowledge_base_id |-> None, model_id |-> None]}
    /\ messages = {}
    /\ qdrant = [c \in Collections |-> {}]
    /\ turn = [s \in Slots |-> BlankTurn]
    /\ turns_started = 0
    /\ kb_documents = {}
    /\ kb_task = [f \in KbFiles |-> BlankKbTask]
    /\ uploaded_documents = {}
    /\ upload = [f \in SessionFiles |-> BlankUpload]
    /\ kb_create = [r \in KbCreators |-> BlankKbCreate]
    /\ provider_call = BlankProviderCall

\* the indexing run in which every step succeeds
IndexedOk == [kind |-> "ok", n |-> MaxChunks]

\* the KB document and the session file uploaded beside the chat turns
ChatKbFiles == {"a.pdf"}
ChatSessionFiles == {"notes.txt"}

\* Chat requests are served one after the other, by handler r1, and every
\* outcome of every step of a turn is explored. A KB document, for either
\* knowledge base, and a session file, for either conversation, are indexed
\* beside the turns; their failures are not explored here.
Next ==
    \/ \E c \in ConversationIds, q \in UserQueries : StartChat("r1", c, q)
    \/ \E s \in Slots : ChatStep(s)
    \/ \E kb_id \in {"kb1", "kb2"}, f \in ChatKbFiles : UploadKbDocument(kb_id, f, TRUE)
    \/ \E f \in ChatKbFiles : KbTaskProcess(f, IndexedOk)
    \/ \E f \in ChatKbFiles : KbTaskFinalize(f, TRUE)
    \/ \E c \in {"c1", "c2"}, f \in ChatSessionFiles : UploadFileIndex(c, f, IndexedOk)
    \/ \E f \in ChatSessionFiles : UploadFileSaveMeta(f, TRUE)

Spec == Init /\ [][Next]_vars

\* ------------------------------------------- the KB upload pipeline alone
\* the knowledge-base ids a client can name; "kb9" is the id of no KB
KbIds == {"kb1", "kb2", "kb9"}

\* Every file is uploaded once, to any KB id; the commit of the upload
\* request, every outcome of the job's extraction, embedding and indexing,
\* and the commit of the job's status update can each succeed or fail.
KbNext ==
    \/ \E kb_id \in KbIds, f \in KbFiles, commit_ok \in BOOLEAN :
          UploadKbDocument(kb_id, f, commit_ok)
    \/ \E f \in KbFiles, o \in KbOutcomes : KbTaskProcess(f, o)
    \/ \E f \in KbFiles, commit_ok \in BOOLEAN : KbTaskFinalize(f, commit_ok)

KbSpec == Init /\ [][KbNext]_vars

\* The same pipeline when the database takes the job's status update. The
\* server runs a queued background job after the response of the upload, and
\* the job runs to its end: each step of a queued job is eventually taken.
KbLiveNext ==
    \/ \E kb_id \in KbIds, f \in KbFiles, commit_ok \in BOOLEAN :
          UploadKbDocument(kb_id, f, commit_ok)
    \/ \E f \in KbFiles, o \in KbOutcomes : KbTaskProcess(f, o)
    \/ \E f \in KbFiles : KbTaskFinalize(f, TRUE)

KbLiveSpec ==
    /\ Init
    /\ [][KbLiveNext]_vars
    /\ \A f \in KbFiles :
          /\ WF_vars(\E o \in KbOutcomes : KbTaskProcess(f, o))
          /\ WF_vars(KbTaskFinalize(f, TRUE))

\* ------------------------------------------- the session uploads alone
\* Every session file is uploaded once, through either endpoint and for any
\* conversation id; every outcome of extraction, embedding and indexing is
\* explored, and the commit of the metadata can succeed or fail.
UploadNext ==
    \/ \E c \in ConversationIds, f \in SessionFiles, o \in UploadOutcomes :
          UploadFileIndex(c, f, o)
    \/ \E c \in ConversationIds, f \in SessionFiles, o \in UploadOutcomes :
          UploadFile(c, f, o)
    \/ \E f \in SessionFiles, commit_ok \in BOOLEAN : UploadFileSaveMeta(f, commit_ok)

UploadSpec == Init /\ [][UploadNext]_vars

\* ---------------------------------- the creation of knowledge bases alone
\* Two handlers serve create requests side by side, for any of the names.
KbCreateNext ==
    \/ \E r \in KbCreators, name \in KbNames : CreateKbCheck(r, name)
    \/ \E r \in KbCreators, commit_ok \in BOOLEAN : CreateKbAdd(r, commit_ok)
    \/ \E r \in KbCreators : CreateKbReturn(r)

KbCreateSpec == Init /\ [][KbCreateNext]_vars

\* ------------------------------------ chat turns on a created conversation
\* A client creates a conversation with any payload and sends chat requests,
\* served one after the other, to it and to the seeded conversations.
ModelNext ==
    \/ \E payload \in ConversationPayloads, commit_ok \in BOOLEAN :
          CreateConversation(payload, commit_ok)
    \/ \E c \in ConversationIds, q \in UserQueries : StartChat("r1", c, q)
    \/ \E s \in Slots : ChatStep(s)

ModelSpec == Init /\ [][ModelNext]_vars

\* --------------------------------------- chat turns beside a KB indexing job
\* Chat requests on conversation c1, which is linked to kb1, run while a
\* document is uploaded to either knowledge base and indexed by its
\* background job; every outcome of the job and of its commits is explored.
KbChatNext ==
    \/ \E q \in UserQueries : StartChat("r1", "c1", q)
    \/ \E s \in Slots : ChatStep(s)
    \/ \E kb_id \in {"kb1", "kb2"}, f \in ChatKbFiles, commit_ok \in BOOLEAN :
          UploadKbDocument(kb_id, f, commit_ok)
    \/ \E f \in ChatKbFiles, o \in KbOutcomes : KbTaskProcess(f, o)
    \/ \E f \in ChatKbFiles, commit_ok \in BOOLEAN : KbTaskFinalize(f, commit_ok)

KbChatSpec == Init /\ [][KbChatNext]_vars

\* -------------------------------------- the two indexing pipelines together
\* One KB document and one session file are uploaded, to any KB id and for
\* any conversation id, and every outcome of both pipelines is explored.
IndexNext ==
    \/ \E kb_id \in KbIds, f \in ChatKbFiles, commit_ok \in BOOLEAN :
          UploadKbDocument(kb_id, f, commit_ok)
    \/ \E f \in ChatKbFiles, o \in KbOutcomes : KbTaskProcess(f, o)
    \/ \E f \in ChatKbFiles, commit_ok \in BOOLEAN : KbTaskFinalize(f, commit_ok)
    \/ \E c \in ConversationIds, f \in ChatSessionFiles, o \in UploadOutcomes :
          UploadFileIndex(c, f, o)
    \/ \E c \in ConversationIds, f \in ChatSessionFiles, o \in UploadOutcomes :
          UploadFile(c, f, o)
    \/ \E f \in ChatSessionFiles, commit_ok \in BOOLEAN : UploadFileSaveMeta(f, commit_ok)

IndexSpec == Init /\ [][IndexNext]_vars

\* ------------------------------------ chat turns on a conversation with a past
\* Conversation c1 after k successful turns that all asked the same question:
\* each left its two Message rows, its user point and its AI point. Further
\* turns then run as in Spec.
HistoryInit ==
    \E k \in 0..MaxPast :
        /\ knowledge_bases = {[id |-> "kb1", name |-> "docs"], [id |-> "kb2", name |-> "other"]}
        /\ conversations =
             {[id |-> "c1", knowledge_base_id |-> "kb1", model_id |-> "mistral"],
              [id |-> "c2", knowledge_base_id |-> None, model_id |-> None]}
        /\ messages =
             UNION {{MessageRow(<<"msg", n - k, 0>>, "c1", "user", <<"hello">>),
                     MessageRow(<<"msg", n - k, 1>>, "c1", "ai", <<"answer">>)} :
                    n \in 0..(k - 1)}
        /\ qdrant = [c \in Collections |->
             IF c = "collection_chat_history"
             THEN UNION {{HistoryPoint(<<"msg", n - k, 0>>, EmbeddingOf(<<"hello">>),
                                       "c1", "user", <<"hello">>),
                          HistoryPoint(<<"msg", n - k, 1>>, EmbeddingOf(<<"answer">>),
                                       "c1", "ai", <<"answer">>)} :
                         n \in 0..(k - 1)}
             ELSE {}]
        /\ turn = [s \in Slots |-> BlankTurn]
        /\ turns_started = 0
        /\ kb_documents = {}
        /\ kb_task = [f \in KbFiles |-> BlankKbTask]
        /\ uploaded_documents = {}
        /\ upload = [f \in SessionFiles |-> BlankUpload]
        /\ kb_create = [r \in KbCreators |-> BlankKbCreate]
        /\ provider_call = BlankProviderCall

HistoryNext ==
    \/ \E c \in ConversationIds, q \in UserQueries : StartChat("r1", c, q)
    \/ \E s \in Slots : ChatStep(s)

HistorySpec == HistoryInit /\ [][HistoryNext]_vars

\* ------------------------------------ two chat turns on one conversation
\* Two handlers serve chat requests on conversation c1 side by side: their
\* steps interleave in any order, and every outcome of every step is explored.
ConcNext ==
    \/ \E s \in Slots, q \in UserQueries : StartChat(s, "c1", q)
    \/ \E s \in Slots : ChatStep(s)

ConcSpec == Init /\ [][ConcNext]_vars

\* ---------------------------------------- one provider call and its retries
\* A caller embeds up to MaxTexts texts or generates a text; the remote API
\* answers each attempt with an error or with any body.
ProviderNext ==
    \/ \E op \in ProviderOps, n \in 0..MaxTexts : ProviderCallStart(op, n)
    \/ \E op \in ProviderOps : \E resp \in ApiResponses(op) : ProviderAttempt(resp)

ProviderSpec == Init /\ [][ProviderNext]_vars

\* ------------------------------------------ the merge on arbitrary results
\* What the three searches of one turn can return, whatever the collections
\* hold: lists of at most MaxHits hits, no point twice in one list, over ids
\* that the three collections share. A payload text is "", a text or, for a
\* history hit, a blank.
HitIds == {<<"x", n, 0>> : n \in 1..NumIds}

IdLists ==
    UNION {{l \in [1..k -> HitIds] : \A i, j \in 1..k : i # j => l[i] # l[j]} :
           k \in 0..MaxHits}

KbHit(id, text) ==
    [id |-> id, score |-> 0,
     payload |-> [kb_id |-> "kb1", doc_id |-> <<"kbqdoc", 1, 0>>, filename |-> "a.pdf",
                  chunk_seq_num |-> 0, text |-> text]]

UploadHit(id, text) ==
    [id |-> id, score |-> 0,
     payload |-> [doc_id |-> <<"updoc", 2, 0>>, source_filename |-> "notes.txt",
                  chunk_seq_num |-> 0, text |-> text, conversation_id |-> "c1"]]

HistoryHit(id, text) ==
    [id |-> id, score |-> 0,
     payload |-> [conversation_id |-> "c1",
                  speaker |-> IF id[2] % 2 = 1 THEN "user" ELSE "ai", text |-> text]]

KbHitLists ==
    UNION {{[i \in DOMAIN l |-> KbHit(l[i], x[i])] : x \in [DOMAIN l -> {<<>>, <<"text">>}]} :
           l \in IdLists}

UploadHitLists ==
    UNION {{[i \in DOMAIN l |-> UploadHit(l[i], x[i])] : x \in [DOMAIN l -> {<<>>, <<"text">>}]} :
           l \in IdLists}

HistoryHitLists ==
    UNION {{[i \in DOMAIN l |-> HistoryHit(l[i], x[i])] : x \in [DOMAIN l -> {<<>>, <<" ">>}]} :
           l \in IdLists}

\* a turn on conversation c1 that has stored its user message under the id
\* <<"x", 1, 0>> and has run its three searches
MergeInit ==
    /\ knowledge_bases = {[id |-> "kb1", name |-> "docs"], [id |-> "kb2", name |-> "other"]}
    /\ conversations =
         {[id |-> "c1", knowledge_base_id |-> "kb1", model_id |-> "mistral"],
          [id |-> "c2", knowledge_base_id |-> None, model_id |-> None]}
    /\ messages = {}
    /\ qdrant = [c \in Collections |-> {}]
    /\ turns_started = 1
    /\ kb_documents = {}
    /\ kb_task = [f \in KbFiles |-> BlankKbTask]
    /\ uploaded_documents = {}
    /\ upload = [f \in SessionFiles |-> BlankUpload]
    /\ kb_create = [r \in KbCreators |-> BlankKbCreate]
    /\ provider_call = BlankProviderCall
    /\ \E kb_hits \in KbHitLists, upload_hits \in UploadHitLists,
          history_hits \in HistoryHitLists :
         turn = [s \in Slots |->
            IF s = "r1"
            THEN [BlankTurn EXCEPT
                    !.pc = "combine", !.conversation_id = "c1",
                    !.user_query = <<"hello">>, !.kb_id = "kb1",
                    !.user_message_id = <<"x", 1, 0>>,
                    !.ai_message_id = <<"msg", 1, 1>>,
                    !.query_vector = EmbeddingOf(<<"hello">>),
                    !.session_new = {MessageRow(<<"x", 1, 0>>, "c1", "user", <<"hello">>)},
                    !.calls = {"embed_query", "search_kb", "search_upload",
                               "search_history"},
                    !.kb_search_results = kb_hits,
                    !.upload_search_results = upload_hits,
                    !.history_search_results = history_hits]
            ELSE BlankTurn]

MergeNext == \E s \in Slots : CombineContext(s)

MergeSpec == MergeInit /\ [][MergeNext]_vars

\* ------------------------------------------------------------------- claims
HasRow(id) == \E m \in messages : m.id = id
HasHistoryPoint(id) == \E p \in qdrant["collection_chat_history"] : p.id = id

\* C1: when the upsert of the user message's vector fails, the turn fails,
\* the pending user Message is rolled back, the relational store holds no
\* Message row of the turn, no generation call was made and no AI message
\* was created.
C1_UserVectorFailureRollsBack ==
    \A s \in Slots :
        LET t == turn[s] IN
        t.error = "index_write" =>
            /\ t.pc = "failed"
            /\ t.session_new = {}
            /\ ~HasRow(t.user_message_id) /\ ~HasRow(t.ai_message_id)
            /\ \A m \in messages : m.conversation_id = t.conversation_id =>
                    m.id # t.user_message_id
            /\ "generate" \notin t.calls
            /\ t.ai_response_text = NoneText
            /\ ~HasHistoryPoint(t.ai_message_id)

C1_Witness ==
    \E s \in Slots :
        /\ turn[s].error = "index_write"
        /\ turn[s].user_message_id = <<"msg", 2, 0>>
        /\ messages # {}

\* C2 as claimed: after a failed generation call the user's Message row of
\* the turn is recorded in the relational store.
C2_UserRowRecordedAfterGenerationFailure ==
    \A s \in Slots :
        turn[s].error = "generation" => HasRow(turn[s].user_message_id)

\* C2 as amended: after a failed generation call the turn fails and the
\* user's Message row is not recorded: the pending row is rolled back, so the
\* relational store holds no row of the turn; only the user's history
\* vector, upserted before, remains.
C2_GenerationFailureRollsBack ==
    \A s \in Slots :
        LET t == turn[s] IN
        t.error = "generation" =>
            /\ t.pc = "failed"
            /\ t.session_new = {}
            /\ ~HasRow(t.user_message_id) /\ ~HasRow(t.ai_message_id)
            /\ HasHistoryPoint(t.user_message_id)

C2_Witness ==
    \E s \in Slots :
        /\ turn[s].error = "generation"
        /\ "generate" \in turn[s].calls
        /\ HasHistoryPoint(turn[s].user_message_id)

\* C3: when the commit at the end of a turn fails, the turn fails, neither
\* Message row of the turn is visible, and the history vectors the turn
\* upserted (the user's, and the AI's when it was written) stay in the index.
C3_CommitFailureKeepsVectors ==
    \A s \in Slots :
        LET t == turn[s] IN
        t.error = "commit" =>
            /\ t.pc = "failed"
            /\ t.session_new = {}
            /\ ~HasRow(t.user_message_id) /\ ~HasRow(t.ai_message_id)
            /\ HasHistoryPoint(t.user_message_id)
            /\ ~t.ai_vector_error => HasHistoryPoint(t.ai_message_id)

C3_Witness ==
    \E s \in Slots :
        /\ turn[s].error = "commit"
        /\ ~turn[s].ai_vector_error
        /\ HasHistoryPoint(turn[s].ai_message_id)

\* C4: the user row and the AI row of a turn become visible together: in no
\* state is exactly one of them committed, and a turn that has answered has
\* both committed.
C4_BothRowsInOneCommit ==
    /\ \A n \in 1..turns_started : HasRow(<<"msg", n, 0>>) <=> HasRow(<<"msg", n, 1>>)
    /\ \A s \in Slots :
          turn[s].pc = "done" =>
              /\ turn[s].response # <<>>
              /\ HasRow(turn[s].user_message_id) /\ HasRow(turn[s].ai_message_id)

C4_Witness ==
    \E s \in Slots :
        /\ turn[s].pc = "done"
        /\ HasRow(turn[s].user_message_id) /\ HasRow(turn[s].ai_message_id)

\* C5: when embedding the AI response or upserting its vector fails, the
\* turn goes on to the commit: unless the commit itself fails it answers,
\* with the AI row committed, and the index holds no history vector with the
\* AI message's id.
C5_AiVectorFailureSwallowed ==
    \A s \in Slots :
        LET t == turn[s] IN
        t.ai_vector_error =>
            /\ t.pc \in {"commit", "done"} \/ (t.pc = "failed" /\ t.error = "commit")
            /\ ~HasHistoryPoint(t.ai_message_id)
            /\ t.pc = "done" =>
                  /\ HasRow(t.ai_message_id)
                  /\ t.response # <<>>
                  /\ t.response[1].response = t.ai_response_text

C5_Witness ==
    \E s \in Slots :
        /\ turn[s].ai_vector_error
        /\ turn[s].pc = "done"
        /\ HasRow(turn[s].ai_message_id)

\* the turns whose merge has run
Merged(t) == t.pc \in {"generate", "persist_ai", "commit", "done"}

\* the positions of the context chunks built from partition p
OriginsOf(t, p) == {i \in DOMAIN t.origins : t.origins[i].partition = p}

\* a hit that the loop of its partition can turn into a chunk
Usable(hit) == Truthy(Get(hit.payload, "text", NoneText))

HitIdsOf(hits) == {hits[i].id : i \in DOMAIN hits}

\* C6: whatever the history search returns, no history line of the context
\* is built from the point whose id is the id of the user message stored in
\* the same turn.
C6_OwnMessageExcluded ==
    \A s \in Slots :
        LET t == turn[s] IN
        Merged(t) =>
            \A i \in OriginsOf(t, "history") : t.origins[i].id # t.user_message_id

C6_Witness ==
    \E s \in Slots :
        LET t == turn[s] IN
        /\ Merged(t)
        /\ \E i \in DOMAIN t.history_search_results :
              /\ t.history_search_results[i].id = t.user_message_id
              /\ Usable(t.history_search_results[i])
        /\ t.user_message_id \notin HitIdsOf(t.kb_search_results)
        /\ t.user_message_id \notin HitIdsOf(t.upload_search_results)
        /\ OriginsOf(t, "history") # {}

\* the first partition, in the order KB, upload, history, that returned id
FirstPartition(t, id) ==
    IF id \in HitIdsOf(t.kb_search_results) THEN "kb"
    ELSE IF id \in HitIdsOf(t.upload_search_results) THEN "upload"
    ELSE "history"

\* the partitions whose hit for id can become a chunk
UsablePartitions(t, id) ==
    {"kb" : i \in {j \in DOMAIN t.kb_search_results :
                     t.kb_search_results[j].id = id /\ Usable(t.kb_search_results[j])}}
    \cup {"upload" : i \in {j \in DOMAIN t.upload_search_results :
                     t.upload_search_results[j].id = id
                     /\ Usable(t.upload_search_results[j])}}
    \cup {"history" : i \in {j \in DOMAIN t.history_search_results :
                     t.history_search_results[j].id = id
                     /\ Usable(t.history_search_results[j])
                     /\ id # t.user_message_id}}

FirstUsablePartition(t, id) ==
    IF "kb" \in UsablePartitions(t, id) THEN "kb"
    ELSE IF "upload" \in UsablePartitions(t, id) THEN "upload"
    ELSE "history"

\* the ids returned by more than one of the three searches
SharedIds(t) ==
    (HitIdsOf(t.kb_search_results) \cap HitIdsOf(t.upload_search_results))
    \cup (HitIdsOf(t.kb_search_results) \cap HitIdsOf(t.history_search_results))
    \cup (HitIdsOf(t.upload_search_results) \cap HitIdsOf(t.history_search_results))

ChunksOf(t, id) == {i \in DOMAIN t.origins : t.origins[i].id = id}

C8_KbBlocksFirst ==
    \A s \in Slots :
        LET t == turn[s] IN
        (Merged(t) /\ t.kb_id # None /\ t.kb_search_results # <<>>) =>
            /\ OriginsOf(t, "kb") # {}
            /\ \A i \in OriginsOf(t, "kb") :
                 \A j \in OriginsOf(t, "upload") \cup OriginsOf(t, "history") : i < j
            /\ t.context_string[1] = "Context from Knowledge Base document '"
            /\ t.sources_for_response[1].type = "knowledge_base"

C8_Witness ==
    \E s \in Slots :
        LET t == turn[s] IN
        /\ Merged(t)
        /\ t.kb_search_results # <<>>
        /\ OriginsOf(t, "kb") # {}
        /\ OriginsOf(t, "upload") # {}
        /\ OriginsOf(t, "history") # {}

\* C9: when a partition search raises, the turn goes on: it is never failed
\* by the search, it can answer, the failing partition contributes no hit,
\* and context and sources are the merge of what the other searches returned.
C9_SearchFailureDegrades ==
    \A s \in Slots :
        LET t == turn[s]
            m == MergeResults(t.kb_search_results, t.upload_search_results,
                              t.history_search_results, t.user_message_id)
        IN
        t.search_errors # {} =>
            /\ t.pc = "failed" => t.error \in {"generation", "commit"}
            /\ "kb" \in t.search_errors => t.kb_search_results = <<>>
            /\ "upload" \in t.search_errors => t.upload_search_results = <<>>
            /\ "history" \in t.search_errors => t.history_search_results = <<>>
            /\ Merged(t) =>
                  /\ \A i \in DOMAIN t.origins :
                        t.origins[i].partition \notin t.search_errors
                  /\ t.origins = m.origins \o m.history_origins
                  /\ t.sources_for_response = m.sources_for_response
            /\ t.pc = "done" => t.response # <<>>

C9_Witness ==
    \E s \in Slots :
        LET t == turn[s] IN
        /\ t.pc = "done"
        /\ t.search_errors = {"upload"}
        /\ t.response # <<>>
        /\ OriginsOf(t, "kb") # {}
        /\ OriginsOf(t, "history") # {}
        /\ \E p \in qdrant["collection_uploads"] :
              p.payload.conversation_id = t.conversation_id

\* C10: the context placed in the prompt is never empty or blank; when no
\* hit of the three searches is usable it is the fallback sentence.
C10_ContextNeverBlank ==
    \A s \in Slots :
        LET t == turn[s] IN
        Merged(t) =>
            /\ t.context_string # NoneText
            /\ Strip(t.context_string) # <<>>
            /\ t.origins = <<>> => t.context_string = FallbackContext

C10_Witness ==
    \E s \in Slots :
        LET t == turn[s] IN
        /\ Merged(t)
        /\ t.origins = <<>>
        /\ t.kb_search_results # <<>>
        /\ t.history_search_results # <<>>
        /\ t.context_string = FallbackContext

\* C11: a chat message for a conversation id that does not exist fails with
\* HTTP 404 before any work is done: no embedding call, no Message row
\* added, no vector upsert, no search and no generation call in that turn.
C11_UnknownConversationNotFound ==
    \A s \in Slots :
        LET t == turn[s] IN
        /\ (~ConversationExists(t.conversation_id) /\ t.pc \notin {"idle", "validate"}) =>
              (t.pc = "failed" /\ t.error = "not_found")
        /\ (t.pc = "failed" /\ t.error = "not_found") =>
              /\ HttpStatus(t.error) = 404
              /\ ~ConversationExists(t.conversation_id)
              /\ t.calls = {}
              /\ t.query_vector = NoneText
              /\ t.session_new = {}
              /\ t.user_message_id = NoId /\ t.ai_message_id = NoId
              /\ t.kb_search_results = <<>> /\ t.upload_search_results = <<>>
              /\ t.history_search_results = <<>> /\ t.search_errors = {}
              /\ t.response = <<>>
              /\ \A m \in messages : m.conversation_id # t.conversation_id
              /\ \A p \in qdrant["collection_chat_history"] :
                    p.payload.conversation_id # t.conversation_id

C11_Witness ==
    \E s \in Slots :
        /\ turn[s].pc = "failed"
        /\ turn[s].error = "not_found"
        /\ turn[s].conversation_id = "c3"
        /\ messages # {}
        /\ qdrant["collection_chat_history"] # {}

\* C12: when embedding the user query raises, or yields a number of vectors
\* other than one, the turn fails with nothing left behind: no Message row
\* of the turn is pending or committed and no history point carries one of
\* the turn's ids.
C12_EmbeddingFailureLeavesNothing ==
    \A s \in Slots :
        LET t == turn[s] IN
        (t.pc = "failed" /\ t.error = "embedding") =>
            /\ HttpStatus(t.error) = 500
            /\ t.session_new = {}
            /\ ~HasRow(t.user_message_id) /\ ~HasRow(t.ai_message_id)
            /\ ~HasHistoryPoint(t.user_message_id)
            /\ ~HasHistoryPoint(t.ai_message_id)
            /\ t.calls = {"embed_query"}
            /\ t.response = <<>>

C12_Witness ==
    \E s \in Slots :
        /\ turn[s].pc = "failed"
        /\ turn[s].error = "embedding"
        /\ turn[s].user_message_id # NoId
        /\ HasRow(<<"msg", 1, 0>>)
        /\ HasHistoryPoint(<<"msg", 1, 0>>)

\* the place of a step in the body of handle_chat_message
PcRank(pc) ==
    CASE pc = "idle" -> 0
      [] pc = "validate" -> 1
      [] pc = "embed" -> 2
      [] pc = "persist_user" -> 3
      [] pc = "search_kb" -> 4
      [] pc = "search_uploads" -> 5
      [] pc = "search_history" -> 6
      [] pc = "combine" -> 7
      [] pc = "generate" -> 8
      [] pc = "persist_ai" -> 9
      [] pc = "commit" -> 10
      [] pc = "done" -> 11
      [] OTHER -> 12

SearchCalls == {"search_kb", "search_upload", "search_history"}

\* one step of a turn, from t to u, with the stores as they are after it
TurnStepInOrder(t, u, messages_after, history_after) ==
    LET ai_row == MessageRow(u.ai_message_id, u.conversation_id, "ai", u.ai_response_text)
    IN
    /\ t.pc # u.pc =>
          \/ u.pc = "failed" /\ t.pc \notin {"idle", "done", "failed"}
          \/ u.pc = "idle" /\ t.pc \in {"done", "failed"}
          \/ u.pc # "failed" /\ PcRank(u.pc) = PcRank(t.pc) + 1
    /\ u.pc # "idle" => t.calls \subseteq u.calls
    /\ u.user_message_id # NoId => ConversationExists(u.conversation_id)
    /\ (\E p \in history_after : p.id = u.user_message_id) =>
          "embed_query" \in u.calls
    /\ u.calls \cap SearchCalls # {} =>
          \E p \in history_after : p.id = u.user_message_id
    /\ "search_upload" \in u.calls =>
          (u.kb_id # None => "search_kb" \in u.calls)
    /\ "search_history" \in u.calls => "search_upload" \in u.calls
    /\ "generate" \in u.calls =>
          ("search_history" \in u.calls /\ u.context_string # NoneText)
    /\ (ai_row \in u.session_new \/ (\E p \in history_after : p.id = u.ai_message_id)
            \/ "embed_ai" \in u.calls) =>
          ("generate" \in u.calls /\ u.ai_response_text # NoneText)
    /\ u.response # <<>> =>
          /\ "embed_ai" \in u.calls
          /\ \E m \in messages_after : m.id = u.user_message_id
          /\ \E m \in messages_after : m.id = u.ai_message_id

\* C13: within one chat turn the steps happen at most once each and in the
\* order validation, query embedding, user-message persistence, the searches
\* (KB, upload, history), generation, AI-message persistence, commit,
\* response; the user's history vector is upserted before any search is
\* issued and the AI message is created only after generation has returned.
C13_StepsInFixedOrder ==
    [][\A s \in Slots :
          TurnStepInOrder(turn[s], turn'[s], messages', qdrant'["collection_chat_history"])]_vars

C13_Witness ==
    \E s \in Slots :
        /\ turn[s].pc = "done"
        /\ turn[s].calls = {"embed_query", "search_kb", "search_upload", "search_history",
                            "generate", "embed_ai"}
        /\ turn[s].response # <<>>
        /\ HasHistoryPoint(turn[s].user_message_id)
        /\ HasHistoryPoint(turn[s].ai_message_id)

\* the ids of a set of rows or points identify them
UniqueIds(rows) == \A a, b \in rows : a.id = b.id => a = b

\* C14: over any sequence of chat turns and uploads, a committed Message row
\* and an upserted vector record are never modified or deleted: every write
\* carries a fresh id, so the message table and each collection only grow.
C14_AppendOnly ==
    [][/\ messages \subseteq messages'
       /\ UniqueIds(messages')
       /\ \A c \in Collections :
            /\ qdrant[c] \subseteq qdrant'[c]
            /\ UniqueIds(qdrant'[c])]_vars

C14_Witness ==
    /\ Cardinality(messages) >= 5
    /\ Cardinality(qdrant["collection_chat_history"]) >= 4
    /\ qdrant["collection_uploads"] # {}
    /\ qdrant["collection_kb"] # {}
    /\ \E m \in messages : m.speaker = "system"

\* the stored point that a context block of partition p with id was built from
StoredPoints(p, id) ==
    {x \in qdrant[CASE p = "kb" -> "collection_kb"
                    [] p = "upload" -> "collection_uploads"
                    [] OTHER -> "collection_chat_history"] : x.id = id}

\* the point belongs to the conversation of turn t, or to its knowledge base
OwnedBy(t, p, x) ==
    IF p = "kb"
    THEN /\ t.kb_id # None
         /\ t.kb_id = ConversationRow(t.conversation_id).knowledge_base_id
         /\ Get(x.payload, "kb_id", None) = t.kb_id
    ELSE Get(x.payload, "conversation_id", None) = t.conversation_id

HitsOwnedBy(t, p, hits) == \A i \in DOMAIN hits : OwnedBy(t, p, hits[i])

\* C15: the context of a turn on conversation C holds upload and history
\* material only of points whose payload conversation_id is C, and KB
\* material only of points whose payload kb_id is the knowledge base linked
\* to C.
C15_ContextIsolation ==
    \A s \in Slots :
        LET t == turn[s] IN
        /\ HitsOwnedBy(t, "kb", t.kb_search_results)
        /\ HitsOwnedBy(t, "upload", t.upload_search_results)
        /\ HitsOwnedBy(t, "history", t.history_search_results)
        /\ \A i \in DOMAIN t.origins :
              /\ StoredPoints(t.origins[i].partition, t.origins[i].id) # {}
              /\ \A x \in StoredPoints(t.origins[i].partition, t.origins[i].id) :
                    OwnedBy(t, t.origins[i].partition, x)
        /\ \A i \in DOMAIN t.sources_for_response :
              \E x \in qdrant["collection_kb"] \cup qdrant["collection_uploads"] :
                 /\ StoredPoints(t.origins[i].partition, t.origins[i].id) = {x}
                 /\ t.sources_for_response[i].text = Preview(x.payload.text)

C15_Witness ==
    \E s \in Slots :
        LET t == turn[s] IN
        /\ Merged(t)
        /\ t.conversation_id = "c1"
        /\ OriginsOf(t, "kb") # {}
        /\ OriginsOf(t, "history") # {}
        /\ t.upload_search_results = <<>>
        /\ "upload" \notin t.search_errors
        /\ \E x \in qdrant["collection_uploads"] : x.payload.conversation_id = "c2"

\* the turn runs on an existing conversation that has no linked knowledge base
Unlinked(t) ==
    /\ ConversationExists(t.conversation_id)
    /\ ConversationRow(t.conversation_id).knowledge_base_id = None

\* the hits of a history search other than the turn's own user message
OtherHistoryHits(t) ==
    SelectSeq(t.history_search_results, LAMBDA hit : hit.id # t.user_message_id)

\* C16: in a turn on a conversation with no linked knowledge base the KB
\* partition is not searched and the response holds no knowledge_base
\* source; when also the upload search and the history search return nothing
\* (for the history: nothing but the turn's own message), the context is the
\* fallback sentence and the sources list of the response is empty.
C16_NoKbLinkedNoKbSearch ==
    \A s \in Slots :
        LET t == turn[s] IN
        Unlinked(t) =>
            /\ "search_kb" \notin t.calls
            /\ "kb" \notin t.search_errors
            /\ t.kb_search_results = <<>>
            /\ \A i \in DOMAIN t.sources_for_response :
                  t.sources_for_response[i].type # "knowledge_base"
            /\ t.pc = "done" =>
                  /\ t.response[1].sources = t.sources_for_response
                  /\ t.upload_search_results = <<>> => t.response[1].sources = <<>>
            /\ (Merged(t) /\ t.upload_search_results = <<>> /\ OtherHistoryHits(t) = <<>>) =>
                  /\ t.context_string = FallbackContext
                  /\ t.sources_for_response = <<>>

C16_Witness ==
    \E s \in Slots :
        LET t == turn[s] IN
        /\ t.pc = "done"
        /\ Unlinked(t)
        /\ {"search_upload", "search_history"} \subseteq t.calls
        /\ t.search_errors = {}
        /\ t.context_string = FallbackContext
        /\ t.response[1].sources = <<>>
        /\ qdrant["collection_kb"] # {}

\* the hits of a result list that have a text, in ranking order
UsableHits(hits) == SelectSeq(hits, Usable)

\* the upload hits that have a text and were not emitted as a KB block
EmittedUploadHits(t) ==
    SelectSeq(t.upload_search_results,
              LAMBDA hit : Usable(hit)
                           /\ hit.id \notin HitIdsOf(UsableHits(t.kb_search_results)))

\* source record src cites hit as a source of the given type
Cites(src, type, hit) ==
    /\ src.type = type
    /\ src.score = hit.score
    /\ src.text = Preview(hit.payload.text)

\* C17: the sources of a chat response are one knowledge_base record per
\* emitted KB block, in KB ranking order, then one session_upload record per
\* emitted upload block, in upload ranking order; the history lines stand
\* after all KB and upload blocks and have no source record.
C17_SourcesFollowBlocks ==
    \A s \in Slots :
        LET t == turn[s]
            kb == UsableHits(t.kb_search_results)
            up == EmittedUploadHits(t)
            src == t.sources_for_response
        IN
        Merged(t) =>
            /\ Len(src) = Len(kb) + Len(up)
            /\ \A i \in 1..Len(kb) :
                  /\ Cites(src[i], "knowledge_base", kb[i])
                  /\ t.origins[i] = [partition |-> "kb", id |-> kb[i].id]
            /\ \A i \in 1..Len(up) :
                  /\ Cites(src[Len(kb) + i], "session_upload", up[i])
                  /\ t.origins[Len(kb) + i] = [partition |-> "upload", id |-> up[i].id]
            /\ \A i \in DOMAIN t.origins :
                  (i > Len(src)) <=> (t.origins[i].partition = "history")
            /\ t.pc = "done" => t.response[1].sources = src

C17_Witness ==
    \E s \in Slots :
        LET t == turn[s] IN
        /\ t.pc = "done"
        /\ Len(UsableHits(t.kb_search_results)) = 2
        /\ Len(EmittedUploadHits(t)) >= 1
        /\ OriginsOf(t, "history") # {}
        /\ Len(t.response[1].sources) >= 3

\* C18: a KB chunk that the KB upload pipeline indexed from a file named F
\* is, in a later chat turn that retrieves it, labelled with the filename F
\* in its context block and in its knowledge_base source record.
C18_KbChunkLabelledWithItsFile ==
    \A s \in Slots :
        LET t == turn[s] IN
        Merged(t) =>
            \A i \in OriginsOf(t, "kb") :
                \A x \in StoredPoints("kb", t.origins[i].id) :
                    /\ t.sources_for_response[i].filename = x.payload.filename
                    /\ i = 1 => t.context_string[2] = x.payload.filename

\* the status of the document row that the upload of file f created
DocStatus(f) ==
    LET rows == {d \in kb_documents : d.id = kb_task[f].kb_doc_id}
    IN IF rows = {} THEN None ELSE (CHOOSE d \in rows : TRUE).status

TerminalStatus == {"completed", "error"}

C20_StatusOnlyLeavesProcessing ==
    [][/\ \A d \in kb_documents :
            \E e \in kb_documents' :
               /\ e.id = d.id
               /\ e.status # d.status =>
                     (d.status = "processing" /\ e.status \in TerminalStatus)
       /\ \A e \in kb_documents' :
            (\A d \in kb_documents : d.id # e.id) => e.status = "processing"]_vars

C20_Witness ==
    \E d, e \in kb_documents :
        /\ d.status = "completed"
        /\ e.status = "processing"
        /\ d.knowledge_base_id = e.knowledge_base_id
        /\ \E f \in KbFiles :
              /\ kb_task[f].kb_doc_id = e.id
              /\ kb_task[f].pc = "closed"

\* the chunk numbers of the points that collection_kb holds for the document
\* of file f
IndexedChunks(f) ==
    {p.payload.chunk_seq_num :
        p \in {x \in qdrant["collection_kb"] :
                  x.payload.doc_id = kb_task[f].qdrant_doc_id}}

WrittenFor(f) ==
    {p.id : p \in {x \in qdrant["collection_uploads"] : x.payload.source_filename = f}}
    \cup {d.id : d \in {x \in uploaded_documents : x.filename = f}}
    \cup {m.id : m \in {x \in messages : x.id = <<"sysmsg", FileNo(f), 0>>}}

\* C22: a session upload whose extraction yields no chunk ends with the
\* successful no-content result, chunks_added = 0, and its request changes
\* neither the upload collection nor the tables of uploaded documents and
\* messages.
C22_EmptyUploadWritesNothing ==
    [][\A f \in SessionFiles :
          (upload[f].pc = "none" /\ upload'[f].outcome = "no_content") =>
              /\ upload'[f].pc = "done"
              /\ upload'[f].chunks_added = 0
              /\ upload'[f].error = None
              /\ qdrant' = qdrant
              /\ uploaded_documents' = uploaded_documents
              /\ messages' = messages
              /\ WrittenFor(f)' = {}]_vars

C22_Witness ==
    \E f, g \in SessionFiles :
        /\ upload[f].outcome = "no_content" /\ upload[f].pc = "done"
        /\ upload[f].chunks_added = 0 /\ WrittenFor(f) = {}
        /\ upload[g].pc = "done" /\ upload[g].chunks_added = MaxChunks
        /\ Cardinality(WrittenFor(g)) = MaxChunks + 2

NoContentMessages ==
    {"Document processor returned no content for non-image file.",
     "Vision API returned empty or invalid description."}

\* C23 as stated: a knowledge-base upload whose extraction yields no chunk
\* ends with a non-error outcome, the final status of its document is not
\* error.
C23_EmptyKbUploadIsNotAnError ==
    \A f \in KbFiles :
        (kb_task[f].pc = "closed" /\ kb_task[f].outcome = "no_content") =>
            DocStatus(f) # "error"

\* C23 as amended: a knowledge-base upload whose extraction yields no chunk
\* does not stop the job; the job indexes nothing and the status it writes is
\* error, with a message that says no content was found; the document is
\* never completed.
C23_EmptyKbUploadEndsInError ==
    \A f \in KbFiles :
        kb_task[f].outcome = "no_content" =>
            /\ kb_task[f].pc \in {"finalize", "closed"}
            /\ kb_task[f].status = "error"
            /\ kb_task[f].error_msg \in NoContentMessages
            /\ IndexedChunks(f) = {}
            /\ DocStatus(f) \in {"processing", "error"}
            /\ DocStatus(f) = "error" => kb_task[f].pc = "closed"

C23_Witness ==
    \E f \in KbFiles :
        /\ kb_task[f].outcome = "no_content" /\ kb_task[f].pc = "closed"
        /\ DocStatus(f) = "error" /\ ~is_image(f)

\* C24: the background job works with a session of its own, not the one of
\* the upload request nor the one of another job, and the session is closed
\* when the job has ended, whatever the job met and whether its status
\* update was committed or failed.
C24_JobSessionOwnedAndClosed ==
    \A f \in KbFiles :
        /\ kb_task[f].session_open <=> kb_task[f].pc = "finalize"
        /\ kb_task[f].pc \in {"finalize", "closed"} =>
              /\ kb_task[f].session # NoId
              /\ kb_task[f].session # kb_task[f].request_session
              /\ \A g \in KbFiles \ {f} :
                    kb_task[f].session \notin
                        {kb_task[g].session, kb_task[g].request_session}

C24_Witness ==
    \E f, g \in KbFiles :
        /\ kb_task[f].pc = "closed" /\ ~kb_task[f].session_open
        /\ kb_task[f].status = "completed" /\ DocStatus(f) = "processing"
        /\ kb_task[g].pc = "closed" /\ ~kb_task[g].session_open
        /\ kb_task[g].outcome = "image_upload_raised" /\ DocStatus(g) = "error"

\* C25: an upload to a knowledge-base id that does not exist is answered
\* with not found, HTTP 404, adds no KnowledgeBaseDocument row and queues no
\* background job.
C25_UnknownKbNotFound ==
    \A f \in KbFiles :
        (kb_task[f].pc # "none" /\ ~KbExists(kb_task[f].kb_id)) =>
            /\ kb_task[f].http_status = 404
            /\ kb_task[f].pc = "rejected"
            /\ \A d \in kb_documents : d.filename # f

\* C26: no two KnowledgeBase rows have the same name; a create request with
\* the name of an existing row is answered with a conflict and adds no row,
\* also when two such requests are served at the same time.
C26_KbNamesUnique ==
    \A k, l \in knowledge_bases : k.name = l.name => k.id = l.id

\* C27: a call of get_embeddings makes at most 4 attempts and a call of
\* generate_text at most 3; an attempt is made only after a failed one, so a
\* success ends the retries; when every attempt failed the call ends with an
\* error for the caller and with no result.
C27_RetriesBounded ==
    LET c == provider_call IN
    /\ c.op = "get_embeddings" => c.attempts <= 4
    /\ c.op = "generate_text" => c.attempts <= 3
    /\ c.pc = "returned" =>
          /\ c.attempts >= 1
          /\ Len(c.errors) = c.attempts - 1
          /\ c.error = None
    /\ c.pc = "calling" => Len(c.errors) = c.attempts /\ c.error = None
    /\ c.pc = "raised" =>
          /\ c.attempts = (IF c.op = "get_embeddings" THEN 4 ELSE 3)
          /\ Len(c.errors) = c.attempts
          /\ c.error = "RetryError"
          /\ c.vectors = <<>> /\ c.text = <<>>

C27_Witness ==
    /\ provider_call.op = "get_embeddings"
    /\ provider_call.pc = "returned"
    /\ provider_call.attempts = 4
    /\ provider_call.errors = <<"api_error", "count_mismatch", "dimension_mismatch">>

\* C28: a call of the embedding service on n texts returns exactly n vectors,
\* all of dimension 768, or fails as a whole; no vector of another dimension
\* is ever returned.
C28_AllVectorsOrNone ==
    (provider_call.op = "get_embeddings" /\ provider_call.pc = "returned") =>
        /\ Len(provider_call.vectors) = provider_call.n
        /\ \A i \in DOMAIN provider_call.vectors :
              provider_call.vectors[i] = EXPECTED_EMBEDDING_DIMENSION

\* C30: the generation of a turn is called with the model id stored for the
\* conversation, or with the fixed default when none is stored; it is never
\* called with an empty or absent model id.
C30_ModelIdNeverEmpty ==
    \A s \in Slots :
        "generate" \in turn[s].calls =>
            LET stored == ConversationRow(turn[s].conversation_id).model_id IN
            /\ turn[s].model_id \notin {None, ""}
            /\ turn[s].model_id =
                  (IF stored \in {None, ""} THEN DefaultModel ELSE stored)

C30_Witness ==
    /\ "generate" \in turn["r1"].calls
    /\ turn["r1"].conversation_id = "c3"
    /\ ConversationRow("c3").model_id = ""
    /\ turn["r1"].model_id = DefaultModel
    /\ turn["r1"].ai_response_text \in Responses

\* C31: the context of a chat turn holds at most 4 knowledge-base blocks, at
\* most 3 session-upload blocks and at most 3 history lines, whatever the
\* index holds, also when the turn's own user message is not among the
\* history hits.
C31_ContextWithinCaps ==
    \A s \in Slots :
        LET o == turn[s].origins
            blocks(partition) ==
                Cardinality({i \in DOMAIN o : o[i].partition = partition})
        IN /\ blocks("kb") <= search_limit_kb
           /\ blocks("upload") <= search_limit_uploads
           /\ blocks("history") <= search_limit_history

\* C32: the step of an upload that yielded n > 0 chunks and indexed them adds
\* exactly n points to its collection, in one upsert: they carry the one
\* grouping doc_id of the upload, the chunk numbers 0..n-1, each with the text
\* of that chunk, and the join key of the partition (conversation_id for a
\* session upload, kb_id for a knowledge-base upload); an upload that did not
\* get that far adds no point.
C32_OneRecordPerChunk ==
    [][/\ \A f \in SessionFiles :
            (upload[f].pc = "none" /\ upload'[f].pc # "none") =>
                LET new == qdrant'["collection_uploads"] \ qdrant["collection_uploads"]
                    n == upload'[f].chunks_added
                IN /\ Cardinality(new) = n
                   /\ n > 0 <=> upload'[f].outcome = "ok"
                   /\ {p.payload.chunk_seq_num : p \in new} = 0..(n - 1)
                   /\ \A p \in new :
                         /\ p.payload.doc_id = upload'[f].session_doc_id
                         /\ p.payload.text = ChunkText(p.payload.chunk_seq_num)
                         /\ p.payload.conversation_id = upload'[f].conversation_id
                   /\ qdrant'["collection_kb"] = qdrant["collection_kb"]
       /\ \A f \in KbFiles :
            (kb_task[f].pc = "queued" /\ kb_task'[f].pc # "queued") =>
                LET new == qdrant'["collection_kb"] \ qdrant["collection_kb"]
                    n == IF kb_task'[f].outcome = "ok" THEN kb_task'[f].chunks ELSE 0
                IN /\ Cardinality(new) = n
                   /\ kb_task'[f].outcome = "ok" => n > 0
                   /\ {p.payload.chunk_seq_num : p \in new} = 0..(n - 1)
                   /\ \A p \in new :
                         /\ p.payload.doc_id = kb_task'[f].qdrant_doc_id
                         /\ p.payload.text = ChunkText(p.payload.chunk_seq_num)
                         /\ p.payload.kb_id = kb_task'[f].kb_id
                   /\ qdrant'["collection_uploads"] = qdrant["collection_uploads"]]_vars

C32_Witness ==
    /\ Cardinality(qdrant["collection_kb"]) = MaxChunks
    /\ Cardinality(qdrant["collection_uploads"]) = MaxChunks
    /\ \E f \in KbFiles : kb_task[f].outcome = "ok" /\ kb_task[f].chunks = MaxChunks
    /\ \E f \in SessionFiles : upload[f].outcome = "ok" /\ upload[f].chunks_added = MaxChunks

\* C33: a chat turn that failed with anything but a commit failure has left
\* no point in the history collection whose id has no Message row: neither of
\* the two message ids of the failed turn is the id of such a point.
C33_OrphanOnlyFromFailedCommit ==
    \A s \in Slots :
        LET t == turn[s] IN
        (t.pc = "failed" /\ t.error # "commit") =>
            \A id \in {t.user_message_id, t.ai_message_id} :
                HasHistoryPoint(id) => HasRow(id)

\* C34: every history line of a turn's context comes from a committed
\* Message row of the turn's conversation: the message of a failed turn, or
\* of a turn still in flight in another request, is never used as history.
\* (Message rows are never removed, so a row missing now was missing when the
\* history was retrieved.)
C34_HistoryFromCommittedRows ==
    \A s \in Slots :
        LET t == turn[s] IN
        \A i \in DOMAIN t.origins :
            t.origins[i].partition = "history" =>
                \E m \in messages :
                    /\ m.id = t.origins[i].id
                    /\ m.conversation_id = t.conversation_id

\* C35: every committed Message row with speaker user has a point in the
\* history collection with the same id, whose payload carries the same
\* conversation_id, the speaker user and the same text.
C35_UserRowHasHistoryVector ==
    \A m \in messages :
        m.speaker = "user" =>
            \E p \in qdrant["collection_chat_history"] :
                /\ p.id = m.id
                /\ p.payload.conversation_id = m.conversation_id
                /\ p.payload.speaker = "user"
                /\ p.payload.text = m.text

\* two turns were committed, on different conversations
C35_Witness ==
    /\ \E m \in messages : m.speaker = "user" /\ m.conversation_id = "c1"
    /\ \E m \in messages : m.speaker = "user" /\ m.conversation_id = "c2"
    /\ \E s \in Slots : turn[s].pc = "done"

\* C36: the KB search of a chat turn returns chunks of a KB document only
\* when the status of that document is completed.
C36_KbHitsOnlyFromCompleted ==
    [][\A s \in Slots :
          (turn[s].pc = "search_kb" /\ turn'[s].pc # "search_kb") =>
              \A i \in DOMAIN turn'[s].kb_search_results :
                  \A f \in KbFiles :
                      kb_task[f].qdrant_doc_id = turn'[s].kb_search_results[i].payload.doc_id
                          => DocStatus(f) = "completed"]_vars

\* C36, as amended: the KB search of a chat turn returns chunks of a KB
\* document only once the job of that document has upserted all its chunks;
\* the status of the document is then processing or completed, never error.
C36_KbHitsOnlyFromIndexedDocuments ==
    [][\A s \in Slots :
          (turn[s].pc = "search_kb" /\ turn'[s].pc # "search_kb") =>
              \A i \in DOMAIN turn'[s].kb_search_results :
                  LET doc_id == turn'[s].kb_search_results[i].payload.doc_id IN
                  \E f \in KbFiles :
                      /\ kb_task[f].qdrant_doc_id = doc_id
                      /\ kb_task[f].outcome = "ok"
                      /\ Cardinality({x \in qdrant["collection_kb"] :
                                        x.payload.doc_id = doc_id}) = kb_task[f].chunks
                      /\ DocStatus(f) \in {"processing", "completed"}]_vars

\* a turn has retrieved chunks of a document whose status is still processing
C36_Witness ==
    \E s \in Slots, f \in KbFiles :
        /\ turn[s].pc = "search_uploads"
        /\ Len(turn[s].kb_search_results) > 0
        /\ turn[s].kb_search_results[1].payload.doc_id = kb_task[f].qdrant_doc_id
        /\ DocStatus(f) = "processing"

\* C37: no point of the uploads collection belongs to a conversation that
\* does not exist: both session-upload endpoints reject an unknown
\* conversation id before any chunk is upserted.
C37_NoChunksForUnknownConversation ==
    \A p \in qdrant["collection_uploads"] :
        ConversationExists(p.payload.conversation_id)

\* C38: once a session upload request has ended, the uploads collection holds
\* points with a grouping doc_id only if an UploadedDocument row with that
\* doc_id is committed.
C38_ChunksOnlyWithDocumentRow ==
    \A f \in SessionFiles :
        upload[f].pc \in {"done", "failed"} =>
            \A p \in qdrant["collection_uploads"] :
                p.payload.source_filename = f =>
                    \E d \in uploaded_documents : d.doc_id = p.payload.doc_id

\* C38, as amended: once a session upload request has ended, the uploads
\* collection holds points with a grouping doc_id only if an UploadedDocument
\* row with that doc_id is committed, or the request ended in the failure of
\* the metadata save, answered with HTTP 500 after the chunks were indexed.
C38_ChunksWithRowOrSaveFailure ==
    \A f \in SessionFiles :
        upload[f].pc \in {"done", "failed"} =>
            \A p \in qdrant["collection_uploads"] :
                p.payload.source_filename = f =>
                    \/ \E d \in uploaded_documents : d.doc_id = p.payload.doc_id
                    \/ /\ upload[f].pc = "failed"
                       /\ upload[f].error = "db_save"
                       /\ p.payload.doc_id = upload[f].session_doc_id

\* one upload ended with its chunks and its row, another with its chunks and
\* the failure of the metadata save
C38_Witness ==
    \E f, g \in SessionFiles :
        /\ upload[f].pc = "done" /\ upload[f].chunks_added = MaxChunks
        /\ \E d \in uploaded_documents : d.doc_id = upload[f].session_doc_id
        /\ upload[g].pc = "failed" /\ upload[g].error = "db_save"
        /\ \E p \in qdrant["collection_uploads"] : p.payload.doc_id = upload[g].session_doc_id

\* C39: two chat turns that ran concurrently on the same conversation and
\* both succeeded used four different message ids, and the two user rows, the
\* two ai rows and the two user history points are all present, each with
\* the conversation and the text of its own turn.
C39_ConcurrentTurnsBothRecorded ==
    \A s, r \in Slots :
        LET t == turn[s]
            u == turn[r]
        IN
        (s # r /\ t.pc = "done" /\ u.pc = "done" /\ t.conversation_id = u.conversation_id) =>
            /\ Cardinality({t.user_message_id, t.ai_message_id,
                            u.user_message_id, u.ai_message_id}) = 4
            /\ \A x \in {t, u} :
                  /\ MessageRow(x.user_message_id, x.conversation_id, "user", x.user_query)
                        \in messages
                  /\ MessageRow(x.ai_message_id, x.conversation_id, "ai", x.ai_response_text)
                        \in messages
                  /\ \E p \in qdrant["collection_chat_history"] :
                        /\ p.id = x.user_message_id
                        /\ p.payload.conversation_id = x.conversation_id
                        /\ p.payload.text = x.user_query

\* both requests on c1 are answered, neither session is closed yet, and the
\* conversation has its four rows
C39_Witness ==
    /\ turn["r1"].pc = "done" /\ turn["r2"].pc = "done"
    /\ turn["r1"].conversation_id = "c1" /\ turn["r2"].conversation_id = "c1"
    /\ Cardinality({m \in messages : m.conversation_id = "c1"}) = 4

====
